---- MODULE Spec2Model ----
(***************************************************************************)
(* Environment lifecycle controller, routing-priority allocator and        *)
(* reconciling sweeper of dynamic-branch-env.                              *)
(*                                                                         *)
(* Every awaited I/O call of a handler is one atomic step of the process   *)
(* running that handler; independent handler invocations interleave at     *)
(* those steps.  The state store is the three DynamoDB tables; the         *)
(* backends are the load balancer's listener rules, its target groups,     *)
(* the compute services and the service registry.                          *)
(***************************************************************************)
EXTENDS Integers, FiniteSets, Sequences, TLC

(***************************************************************************)
(* Bounds of the model.                                                    *)
(***************************************************************************)
NProcs == 2         \* concurrent handler invocations
MaxEvents == 3      \* lifecycle actions delivered in one behaviour
MaxOverlap == 1     \* actions delivered while another invocation is in flight
MaxFaults == 1      \* backend calls that fail in one behaviour
MaxStoreFaults == 2 \* state store calls that fail in one behaviour
MaxAdvance == 1     \* clock advances in one behaviour
MaxSweeps == 1      \* sweeper runs in one behaviour
MaxSweepEvents == 3 \* lifecycle actions delivered in one behaviour with the sweeper
MaxRaceEvents == 2  \* lifecycle actions delivered to a deployed environment
MaxFullEvents == 2  \* lifecycle actions issued against a nearly full priority table
MaxFullFree == 1    \* priorities at most left free in that table
MaxCalls == 3       \* calls of allocatePriority and releasePriority that return
MaxExtends == 2     \* requests to extend the time-to-live
MaxMirrorEvents == 2 \* lifecycle actions delivered while the clock ticks
MaxTicks == 1       \* seconds the clock ticks while invocations run
MaxOwnerEvents == 3 \* lifecycle actions delivered while an environment is torn down
MaxOwnerOverlap == 2 \* of them, deliveries while another invocation runs
FreeSlots == 3      \* most priorities left free by the pre-existing rows

(***************************************************************************)
(* Program constants.                                                      *)
(***************************************************************************)
MinPriority == 1
MaxPriority == 100
DEFAULT_TTL_HOURS == 24
GRACE_PERIOD_MINUTES == 30
DEFAULT_EXTENSION_HOURS == 24

PREVIEWABLE_SERVICES == <<"api-gateway", "web-app">>
\* The lifecycle actions of an event.
Actions == {"CREATE", "UPDATE", "DESTROY"}
githubEventSource == "virtual-env.github"
cleanupEventSource == "virtual-env.cleanup"

Envs == {"pr-1", "pr-2"}
Procs == 1..NProcs
ServiceIds == {PREVIEWABLE_SERVICES[i] : i \in 1..Len(PREVIEWABLE_SERVICES)}
PriorityRange == MinPriority..MaxPriority
TtlSeconds == DEFAULT_TTL_HOURS * 60 * 60
GraceSeconds == GRACE_PERIOD_MINUTES * 60
\* Error messages an SDK call can fail with; an Error may carry no message.
ErrorMessages == {"", "ServiceUnavailable"}
ExhaustedMessage == "No available ALB rule priorities - maximum concurrent environments reached"
\* Owner of the rows that exist before the modelled environments are created.
OtherEnv == "pr-0"
SweepEnvs == {"pr-1"}

VARIABLES
    now,            \* wall clock, seconds
    environments,   \* ENVIRONMENTS_TABLE: virtualEnvId -> item
    routingConfig,  \* ROUTING_CONFIG_TABLE: set of items keyed (serviceId, virtualEnvId)
    priorities,     \* PRIORITIES_TABLE: set of items keyed (listenerArn, priority)
    albRules,       \* listener rules of the load balancer
    nextArn,        \* next rule ARN the load balancer hands out
    nextId,         \* next target group ARN and next registry service Id handed out
    targetGroups,   \* target groups: name and ARN
    ecsServices,    \* compute services, by name
    cloudMap,       \* registry services: name and Id
    proc,           \* per invocation or dashboard request: position and locals
    sweeper,        \* the cleanup handler's position and locals
    budget,         \* what is left of the bounds: events, faults, advances, sweeps
    hist            \* observations used to state properties

vars == <<now, environments, routingConfig, priorities, albRules, nextArn, nextId,
          targetGroups, ecsServices, cloudMap, proc, sweeper, budget, hist>>

(***************************************************************************)
(* Items.  An attribute that is absent from an item is 0 (numbers), ""     *)
(* (strings) or FALSE (handles kept as flags).  The handles a later call    *)
(* passes back to the backend (rule ARN, target group ARN, registry        *)
(* service Id) are numbers.                                                *)
(***************************************************************************)
NoServiceState ==
    [status |-> "", taskDefinitionArn |-> FALSE, targetGroupArn |-> 0,
     albRuleArn |-> 0, cloudMapServiceId |-> 0, ecsServiceArn |-> FALSE]

\* The first identifiers the load balancer and the registry hand out.
FirstIds == [targetGroup |-> 1, cloudMap |-> 1]

\* The names of the target groups / registry services of a set.
Names(resources) == {r.name : r \in resources}

\* The resources of the set under the name `name` (at most one).
Named(resources, name) == {r \in resources : r.name = name}

NoServices == [s \in ServiceIds |-> NoServiceState]

NoEnvironment ==
    [exists |-> FALSE, status |-> "", hasServices |-> FALSE, services |-> NoServices,
     expiresAt |-> 0, ttl |-> 0, ttlTimestamp |-> 0, lastError |-> ""]

\* PRIORITIES_TABLE rows with the given priority (the table's key).
PriorityRows(tbl, priority) == {r \in tbl : r.priority = priority}

\* The condition with the ConditionExpression left out: every write commits.
ConditionHolds_Absent(tbl, priority) == TRUE

\* PutItem with ConditionExpression attribute_not_exists(listenerArn) AND
\* attribute_not_exists(priority): TRUE iff the write commits.
ConditionHolds(tbl, priority) == PriorityRows(tbl, priority) = {}

\* The table after PutItem of `item`: an item with the same key is replaced.
PutPriority(tbl, item) == (tbl \ PriorityRows(tbl, item.priority)) \cup {item}

\* A delete that takes the rows of every key along.
DeletePriority_Table(tbl, priority) == {}

\* The table after DeleteItem of the key `priority`.
DeletePriority(tbl, priority) == tbl \ PriorityRows(tbl, priority)

\* allocatePriority: usedPriorities, as read by the Query.
UsedPriorities(tbl) == {r.priority : r \in tbl}

\* The loop run downwards: the last candidate the snapshot does not hold.
NextCandidate_Last(used, from) ==
    IF \E c \in from..MaxPriority : c \notin used
    THEN CHOOSE c \in from..MaxPriority :
             /\ c \notin used
             /\ \A d \in (c + 1)..MaxPriority : d \in used
    ELSE MaxPriority + 1

\* allocatePriority: the next candidate of the for loop at or after `from` that the
\* snapshot does not hold; MaxPriority + 1 when the loop runs out.
NextCandidate(used, from) ==
    IF \E c \in from..MaxPriority : c \notin used
    THEN CHOOSE c \in from..MaxPriority :
             /\ c \notin used
             /\ \A d \in from..(c - 1) : d \in used
    ELSE MaxPriority + 1

IdleProc ==
    [pc |-> "idle", action |-> "", source |-> "", env |-> "", expiresAt |-> 0,
     existing |-> NoServices, noServices |-> FALSE,
     serviceStates |-> NoServices, i |-> 0,
     used |-> {}, cand |-> 0, priority |-> 0,
     taskDefinitionArn |-> FALSE, targetGroupArn |-> 0, albRuleArn |-> 0,
     cloudMapServiceId |-> 0, ecsServiceArn |-> FALSE,
     items |-> {}, error |-> "", extensionHours |-> 0, newTtl |-> 0]

Service(pr) == PREVIEWABLE_SERVICES[pr.i]

\* The locals of deployService / cleanupService, cleared between services.
ClearLocals(pr) ==
    [pr EXCEPT !.used = {}, !.cand = 0, !.priority = 0, !.taskDefinitionArn = FALSE,
               !.targetGroupArn = 0, !.albRuleArn = 0,
               !.cloudMapServiceId = 0, !.ecsServiceArn = FALSE]

\* The invocation is over: it returned or re-raised; what it did is kept in hist.
Finished(pr) == IdleProc

\* handler, lines 158-165: an exception escaped handleCreate / handleUpdate /
\* handleDestroy; the catch block runs next.
Escapes(pr, message) ==
    [ClearLocals(pr) EXCEPT !.pc = "h_fail", !.error = message, !.items = {},
                            !.existing = NoServices, !.noServices = FALSE,
                            !.serviceStates = NoServices, !.i = 0]

\* handleCreate, lines 222-228: deployService (or the services update after it)
\* threw; the service is recorded FAILED and the services map is written next.
ServiceFailed(pr) ==
    [ClearLocals(pr) EXCEPT !.pc = "c_failupd",
                            !.serviceStates[Service(pr)] =
                                [NoServiceState EXCEPT !.status = "FAILED"]]

\* handleCreate, lines 212-233: the for loop moves to the next service, or the
\* status update to ACTIVE follows.
NextDeploy(pr) ==
    IF pr.i < Len(PREVIEWABLE_SERVICES)
    THEN [ClearLocals(pr) EXCEPT !.i = pr.i + 1, !.pc = "d_taskdef"]
    ELSE [ClearLocals(pr) EXCEPT !.i = 0, !.pc = "c_active"]

\* A backend call fails (transient backend error): one unit of the fault budget.
BackendFault == budget.backendFaults > 0
SpendBackendFault == budget' = [budget EXCEPT !.backendFaults = @ - 1]
\* A state store call fails.
StoreFault == budget.storeFaults > 0
SpendStoreFault == budget' = [budget EXCEPT !.storeFaults = @ - 1]

\* EventBridge rules PrOpenedRule, PrSyncRule, PrClosedRule: whether an event of
\* this source and action is delivered to the environment controller.
RuleMatches(source, action) ==
    /\ source = githubEventSource
    /\ action \in {"CREATE", "UPDATE", "DESTROY"}

\* What is observed of a completed invocation: the action, the handler that
\* completed it, how it ended ("ok", "raised": the error was re-raised after the
\* status update, "raised_in_catch": the status update of the catch block failed)
\* and the error raised.  The last one per environment is kept, and the whole
\* sequence when the behaviour is logged.
Logged(pr, handledAs, outcome, error) ==
    LET entry == [action |-> pr.action, env |-> pr.env, handledAs |-> handledAs,
                  outcome |-> outcome, error |-> error]
    IN  [hist EXCEPT !.last[pr.env] = entry,
                     !.trace = IF budget.logging THEN Append(@, entry) ELSE @]

(***************************************************************************)
(* handler: an invocation of the environment controller starts.  The event *)
(* is one the webhook handler put on the bus, or one the cleanup handler   *)
(* put there, when a rule delivers it.                                     *)
(***************************************************************************)
Invoke(p) ==
    /\ proc[p].pc = "idle"
    /\ budget.events > 0
    /\ LET overlaps == \E q \in Procs : proc[q].pc # "idle"
       IN  /\ overlaps => budget.overlaps > 0
           /\ budget' = [budget EXCEPT !.events = @ - 1,
                                       !.overlaps = IF overlaps THEN @ - 1 ELSE @]
    \* the invocations are interchangeable: the first idle one takes the event
    /\ \A q \in Procs : q < p => proc[q].pc # "idle"
    /\ \E action \in budget.actions, env \in budget.envs, source \in {githubEventSource, cleanupEventSource} :
          /\ RuleMatches(source, action)
          /\ source = cleanupEventSource => action = "DESTROY" /\ hist.pending[env] > 0
          /\ hist' = IF source = cleanupEventSource
                     THEN [hist EXCEPT !.pending[env] = @ - 1, !.delivered[env] = @ + 1]
                     ELSE hist
          /\ proc' = [proc EXCEPT ![p] =
                 [IdleProc EXCEPT
                     !.action = action, !.source = source, !.env = env,
                     \* handleCreate, line 174: expiresAt is computed on entry
                     !.expiresAt = IF action = "CREATE" THEN now + TtlSeconds ELSE 0,
                     !.pc = CASE action = "CREATE" -> "c_get"
                              [] action = "UPDATE" -> "u_get"
                              [] OTHER -> "x_get"]]
    /\ UNCHANGED <<now, environments, routingConfig, priorities, albRules, nextArn, nextId,
                   targetGroups, ecsServices, cloudMap, sweeper>>

(***************************************************************************)
(* handleCreate                                                            *)
(***************************************************************************)
\* handleCreate without the check of the existing record.
TreatedAsUpdate_Never(existing) == FALSE

\* line 178: an existing record that is neither DESTROYED nor FAILED turns the
\* create into an update.
TreatedAsUpdate(existing) ==
    existing.exists /\ existing.status \notin {"DESTROYED", "FAILED"}

\* lines 177-183: getEnvironment, then the choice between create and update.
CreateGet(p) ==
    LET pr == proc[p]
        existing == environments[pr.env]
    IN  /\ pr.pc = "c_get"
        /\ \/ /\ proc' = [proc EXCEPT ![p] =
                     IF TreatedAsUpdate(existing)
                     THEN [pr EXCEPT !.pc = "u_get"]
                     ELSE [pr EXCEPT !.pc = "c_put"]]
              /\ UNCHANGED budget
           \/ /\ StoreFault /\ SpendStoreFault
              /\ \E m \in ErrorMessages : proc' = [proc EXCEPT ![p] = Escapes(pr, m)]
        /\ UNCHANGED <<now, environments, routingConfig, priorities, albRules, nextArn, nextId,
                       targetGroups, ecsServices, cloudMap, sweeper, hist>>

\* lines 186-205: PutItem of the fresh record (the whole item is replaced).
CreatePut(p) ==
    LET pr == proc[p]
    IN  /\ pr.pc = "c_put"
        /\ \/ /\ environments' = [environments EXCEPT ![pr.env] =
                     [exists |-> TRUE, status |-> "CREATING", hasServices |-> TRUE,
                      services |-> NoServices, expiresAt |-> pr.expiresAt,
                      ttl |-> pr.expiresAt, ttlTimestamp |-> 0, lastError |-> ""]]
              /\ proc' = [proc EXCEPT ![p] =
                     [pr EXCEPT !.pc = "d_taskdef", !.i = 1, !.serviceStates = NoServices]]
              /\ UNCHANGED budget
           \/ /\ StoreFault /\ SpendStoreFault
              /\ \E m \in ErrorMessages : proc' = [proc EXCEPT ![p] = Escapes(pr, m)]
              /\ UNCHANGED environments
        /\ UNCHANGED <<now, routingConfig, priorities, albRules, nextArn, nextId,
                       targetGroups, ecsServices, cloudMap, sweeper, hist>>

(***************************************************************************)
(* deployService, one service of the for loop of handleCreate              *)
(***************************************************************************)
Others == <<now, environments, routingConfig, priorities, albRules, nextArn, nextId,
            targetGroups, ecsServices, cloudMap, sweeper, hist>>

\* lines 341-393: register the task definition.
DeployTaskDef(p) ==
    LET pr == proc[p]
    IN  /\ pr.pc = "d_taskdef"
        /\ \/ /\ proc' = [proc EXCEPT ![p] =
                     [pr EXCEPT !.pc = "d_tg", !.taskDefinitionArn = TRUE]]
              /\ UNCHANGED budget
           \/ /\ BackendFault /\ SpendBackendFault
              /\ proc' = [proc EXCEPT ![p] = ServiceFailed(pr)]
        /\ UNCHANGED Others

\* lines 395-419: create the target group.  A group of that name and settings that
\* exists already is returned as it is.
DeployTargetGroup(p) ==
    LET pr == proc[p]
        name == <<pr.env, Service(pr)>>
        present == Named(targetGroups, name)
        arn == IF present = {} THEN nextId.targetGroup
               ELSE (CHOOSE g \in present : TRUE).arn
    IN  /\ pr.pc = "d_tg"
        /\ \/ /\ targetGroups' = targetGroups \cup {[name |-> name, arn |-> arn]}
              /\ nextId' = IF present = {} THEN [nextId EXCEPT !.targetGroup = @ + 1]
                           ELSE nextId
              /\ proc' = [proc EXCEPT ![p] =
                     [pr EXCEPT !.pc = "a_query", !.targetGroupArn = arn]]
              /\ UNCHANGED budget
           \/ /\ BackendFault /\ SpendBackendFault
              /\ proc' = [proc EXCEPT ![p] = ServiceFailed(pr)]
              /\ UNCHANGED <<targetGroups, nextId>>
        /\ UNCHANGED <<now, environments, routingConfig, priorities, albRules, nextArn,
                       ecsServices, cloudMap, sweeper, hist>>

(***************************************************************************)
(* allocatePriority                                                        *)
(***************************************************************************)
\* What follows allocatePriority returning `priority`: step 3 of deployService goes
\* on to CreateRule; a direct call of the allocator has returned.
Allocated(pr, priority) ==
    IF pr.action = "ALLOCATE"
    THEN [pr EXCEPT !.pc = "returned", !.priority = priority]
    ELSE [pr EXCEPT !.pc = "d_rule", !.priority = priority]

\* line 807: the scan ran out of candidates; the error propagates out of
\* deployService to the catch block of handleCreate.
Exhausted(pr) ==
    IF pr.action = "ALLOCATE"
    THEN [pr EXCEPT !.pc = "exhausted", !.error = ExhaustedMessage]
    ELSE ServiceFailed(pr)

\* lines 784-805: after a candidate was refused the loop goes on with the next one
\* the snapshot does not hold.
AfterRefusal(pr) ==
    LET next == NextCandidate(pr.used, pr.cand + 1)
    IN  IF next > MaxPriority THEN Exhausted(pr) ELSE [pr EXCEPT !.cand = next]

\* lines 772-777: the Query itself failed; allocatePriority does not catch that.
QueryFailed(pr, message) ==
    IF pr.action = "ALLOCATE"
    THEN [pr EXCEPT !.pc = "threw", !.error = message]
    ELSE ServiceFailed(pr)

\* lines 772-781: the Query that builds usedPriorities.
AllocateQuery(p) ==
    LET pr == proc[p]
        used == UsedPriorities(priorities)
        first == NextCandidate(used, MinPriority)
    IN  /\ pr.pc = "a_query"
        /\ \/ /\ proc' = [proc EXCEPT ![p] =
                     IF first > MaxPriority
                     THEN Exhausted([pr EXCEPT !.used = used])
                     ELSE [pr EXCEPT !.pc = "a_put", !.used = used, !.cand = first]]
              /\ UNCHANGED budget
           \/ /\ StoreFault /\ SpendStoreFault
              /\ \E m \in ErrorMessages : proc' = [proc EXCEPT ![p] = QueryFailed(pr, m)]
        /\ UNCHANGED Others

\* The item allocatePriority writes for its candidate, lines 790-797.
PriorityItem(pr) ==
    [priority |-> pr.cand, virtualEnvId |-> pr.env,
     serviceId |-> Service(pr), ttl |-> pr.expiresAt]

\* The write as a plain PutItem: an existing row of the key is replaced.
ReservePriority_Overwriting(tbl, item) ==
    (tbl \ {r \in tbl : r.priority = item.priority}) \cup {item}

\* lines 788-799: the conditional PutItem; the table after it.
ReservePriority(tbl, item) ==
    IF ConditionHolds(tbl, item.priority) THEN PutPriority(tbl, item) ELSE tbl

\* lines 787-803: one pass of the loop body for the current candidate.
AllocatePut(p) ==
    LET pr == proc[p]
    IN  /\ pr.pc = "a_put"
        /\ \/ /\ priorities' = ReservePriority(priorities, PriorityItem(pr))
              /\ proc' = [proc EXCEPT ![p] =
                     IF ConditionHolds(priorities, pr.cand)
                     THEN Allocated(pr, pr.cand)
                     ELSE AfterRefusal(pr)]
              /\ UNCHANGED budget
           \/ \* any other error of the write is swallowed by the same catch
              /\ StoreFault /\ SpendStoreFault
              /\ proc' = [proc EXCEPT ![p] = AfterRefusal(pr)]
              /\ UNCHANGED priorities
        /\ UNCHANGED <<now, environments, routingConfig, albRules, nextArn, nextId,
                       targetGroups, ecsServices, cloudMap, sweeper, hist>>

(***************************************************************************)
(* deployService, after the priority is allocated                          *)
(***************************************************************************)
\* Listener rules holding `priority`.  The load balancer refuses a second rule with
\* a priority that a rule of the listener holds.
RulesAt(rules, priority) == {r \in rules : r.priority = priority}

\* lines 425-458: CreateRule with the allocated priority, forwarding to the target
\* group of line 419.  The load balancer refuses a rule that forwards to a target
\* group that is gone.
DeployRule(p) ==
    LET pr == proc[p]
        accepted == /\ RulesAt(albRules, pr.priority) = {}
                    /\ \E g \in targetGroups : g.arn = pr.targetGroupArn
    IN  /\ pr.pc = "d_rule"
        /\ \/ /\ accepted
              /\ albRules' = albRules \cup
                     {[arn |-> nextArn, virtualEnvId |-> pr.env,
                       serviceId |-> Service(pr), priority |-> pr.priority]}
              /\ nextArn' = nextArn + 1
              /\ proc' = [proc EXCEPT ![p] =
                     [pr EXCEPT !.pc = "d_cloudmap", !.albRuleArn = nextArn]]
              /\ UNCHANGED budget
           \/ /\ ~accepted
              /\ proc' = [proc EXCEPT ![p] = ServiceFailed(pr)]
              /\ UNCHANGED <<albRules, nextArn, budget>>
           \/ /\ BackendFault /\ SpendBackendFault
              /\ proc' = [proc EXCEPT ![p] = ServiceFailed(pr)]
              /\ UNCHANGED <<albRules, nextArn>>
        /\ UNCHANGED <<now, environments, routingConfig, priorities, nextId,
                       targetGroups, ecsServices, cloudMap, sweeper, hist>>

\* lines 460-487: the Cloud Map service, non-fatal when it fails.  The registry
\* refuses a second service of the same name in the namespace.
DeployCloudMap(p) ==
    LET pr == proc[p]
        name == <<pr.env, Service(pr)>>
    IN  /\ pr.pc = "d_cloudmap"
        /\ \/ /\ name \notin Names(cloudMap)
              /\ cloudMap' = cloudMap \cup {[name |-> name, id |-> nextId.cloudMap]}
              /\ nextId' = [nextId EXCEPT !.cloudMap = @ + 1]
              /\ proc' = [proc EXCEPT ![p] =
                     [pr EXCEPT !.pc = "d_ecs", !.cloudMapServiceId = nextId.cloudMap]]
              /\ UNCHANGED budget
           \/ /\ name \in Names(cloudMap)
              /\ proc' = [proc EXCEPT ![p] = [pr EXCEPT !.pc = "d_ecs"]]
              /\ UNCHANGED <<cloudMap, nextId, budget>>
           \/ /\ BackendFault /\ SpendBackendFault
              /\ proc' = [proc EXCEPT ![p] = [pr EXCEPT !.pc = "d_ecs"]]
              /\ UNCHANGED <<cloudMap, nextId>>
        /\ UNCHANGED <<now, environments, routingConfig, priorities, albRules, nextArn,
                       targetGroups, ecsServices, sweeper, hist>>

\* lines 489-527: the ECS service.  The cluster refuses a second service of the
\* same name.
DeployEcsService(p) ==
    LET pr == proc[p]
        name == <<pr.env, Service(pr)>>
    IN  /\ pr.pc = "d_ecs"
        /\ \/ /\ name \notin ecsServices
              /\ ecsServices' = ecsServices \cup {name}
              /\ proc' = [proc EXCEPT ![p] =
                     [pr EXCEPT !.pc = "d_routing", !.ecsServiceArn = TRUE]]
              /\ UNCHANGED budget
           \/ /\ name \in ecsServices
              /\ proc' = [proc EXCEPT ![p] = ServiceFailed(pr)]
              /\ UNCHANGED <<ecsServices, budget>>
           \/ /\ BackendFault /\ SpendBackendFault
              /\ proc' = [proc EXCEPT ![p] = ServiceFailed(pr)]
              /\ UNCHANGED ecsServices
        /\ UNCHANGED <<now, environments, routingConfig, priorities, albRules, nextArn, nextId,
                       targetGroups, cloudMap, sweeper, hist>>

\* ROUTING_CONFIG_TABLE items with the key (serviceId, virtualEnvId).
RoutingRows(tbl, serviceId, env) ==
    {r \in tbl : r.serviceId = serviceId /\ r.virtualEnvId = env}

\* The table after PutItem of `item`: an item with the same key is replaced.
PutRouting(tbl, item) ==
    (tbl \ RoutingRows(tbl, item.serviceId, item.virtualEnvId)) \cup {item}

\* The ServiceState deployService returns, lines 545-553.
DeployedState(pr) ==
    [status |-> "ACTIVE", taskDefinitionArn |-> pr.taskDefinitionArn,
     targetGroupArn |-> pr.targetGroupArn, albRuleArn |-> pr.albRuleArn,
     cloudMapServiceId |-> pr.cloudMapServiceId, ecsServiceArn |-> pr.ecsServiceArn]

\* lines 529-553: store the routing config and return the service's state.
DeployRouting(p) ==
    LET pr == proc[p]
    IN  /\ pr.pc = "d_routing"
        /\ \/ /\ routingConfig' = PutRouting(routingConfig,
                     [serviceId |-> Service(pr), virtualEnvId |-> pr.env,
                      targetGroupArn |-> pr.targetGroupArn, albRuleArn |-> pr.albRuleArn,
                      priority |-> pr.priority, ttl |-> pr.expiresAt])
              /\ proc' = [proc EXCEPT ![p] =
                     [pr EXCEPT !.pc = "c_svcupd",
                                !.serviceStates[Service(pr)] = DeployedState(pr)]]
              /\ UNCHANGED budget
           \/ /\ StoreFault /\ SpendStoreFault
              /\ proc' = [proc EXCEPT ![p] = ServiceFailed(pr)]
              /\ UNCHANGED routingConfig
        /\ UNCHANGED <<now, environments, priorities, albRules, nextArn, nextId,
                       targetGroups, ecsServices, cloudMap, sweeper, hist>>

\* The error marshall throws, with its default options, for a value undefined.
MarshallMessage ==
    "Pass options.removeUndefinedValues=true to remove undefined values from map/array/set."

\* A ServiceState as deployService returns it (lines 545-553, status ACTIVE) has
\* every key; a handle that was never assigned is a key whose value is undefined.
\* The state of a failed service (lines 224-227) has serviceId and status alone.
HasUndefined(state) ==
    /\ state.status = "ACTIVE"
    /\ \/ ~state.taskDefinitionArn
       \/ state.targetGroupArn = 0
       \/ state.albRuleArn = 0
       \/ state.cloudMapServiceId = 0
       \/ ~state.ecsServiceArn

\* lines 693-696: marshall({':services': services, ...}) returns.
Marshallable(services) == \A s \in ServiceIds : ~HasUndefined(services[s])

\* updateEnvironmentServices, lines 681-698: UpdateItem SET services, updatedAt.
\* UpdateItem creates the item when the key holds none.  When marshall throws no
\* call is made.
UpdateEnvironmentServices(tbl, env, services) ==
    IF Marshallable(services)
    THEN [tbl EXCEPT ![env] = [@ EXCEPT !.exists = TRUE, !.hasServices = TRUE,
                                        !.services = services]]
    ELSE tbl

\* handleCreate, line 219: the services map after a successful deployService.  When
\* the write throws, in marshall or in the store, the catch of line 222 is next.
CreateServicesUpdate(p) ==
    LET pr == proc[p]
    IN  /\ pr.pc = "c_svcupd"
        /\ \/ /\ environments' =
                     UpdateEnvironmentServices(environments, pr.env, pr.serviceStates)
              /\ proc' = [proc EXCEPT ![p] =
                     IF Marshallable(pr.serviceStates) THEN NextDeploy(pr)
                     ELSE ServiceFailed(pr)]
              /\ UNCHANGED budget
           \/ /\ Marshallable(pr.serviceStates)
              /\ StoreFault /\ SpendStoreFault
              /\ proc' = [proc EXCEPT ![p] = ServiceFailed(pr)]
              /\ UNCHANGED environments
        /\ UNCHANGED <<now, routingConfig, priorities, albRules, nextArn, nextId,
                       targetGroups, ecsServices, cloudMap, sweeper, hist>>

\* handleCreate, line 228: the services map after a failed deployService.
CreateFailedUpdate(p) ==
    LET pr == proc[p]
    IN  /\ pr.pc = "c_failupd"
        /\ \/ /\ environments' =
                     UpdateEnvironmentServices(environments, pr.env, pr.serviceStates)
              /\ proc' = [proc EXCEPT ![p] =
                     IF Marshallable(pr.serviceStates) THEN NextDeploy(pr)
                     ELSE Escapes(pr, MarshallMessage)]
              /\ UNCHANGED budget
           \/ /\ Marshallable(pr.serviceStates)
              /\ StoreFault /\ SpendStoreFault
              /\ \E m \in ErrorMessages : proc' = [proc EXCEPT ![p] = Escapes(pr, m)]
              /\ UNCHANGED environments
        /\ UNCHANGED <<now, routingConfig, priorities, albRules, nextArn, nextId,
                       targetGroups, ecsServices, cloudMap, sweeper, hist>>

\* updateEnvironmentStatus, lines 646-679: UpdateItem SET status, updatedAt and,
\* when `error` is truthy, lastError.  UpdateItem creates the item when the key
\* holds none.
UpdateEnvironmentStatus(tbl, env, status, error) ==
    [tbl EXCEPT ![env] = [@ EXCEPT !.exists = TRUE, !.status = status,
                                   !.lastError = IF error # "" THEN error ELSE @]]

\* handleCreate, line 233.
CreateActive(p) ==
    LET pr == proc[p]
    IN  /\ pr.pc = "c_active"
        /\ \/ /\ environments' = UpdateEnvironmentStatus(environments, pr.env, "ACTIVE", "")
              /\ proc' = [proc EXCEPT ![p] = Finished(pr)]
              /\ hist' = Logged(pr, "CREATE", "ok", "")
              /\ UNCHANGED budget
           \/ /\ StoreFault /\ SpendStoreFault
              /\ \E m \in ErrorMessages : proc' = [proc EXCEPT ![p] = Escapes(pr, m)]
              /\ UNCHANGED <<environments, hist>>
        /\ UNCHANGED <<now, routingConfig, priorities, albRules, nextArn, nextId,
                       targetGroups, ecsServices, cloudMap, sweeper>>

\* handler, lines 158-165: the catch block sets FAILED and re-raises.  When the
\* status update itself fails, that error is the one raised.
HandlerFailed(p) ==
    LET pr == proc[p]
    IN  /\ pr.pc = "h_fail"
        /\ \/ /\ environments' =
                     UpdateEnvironmentStatus(environments, pr.env, "FAILED",
                         pr.error)
              /\ proc' = [proc EXCEPT ![p] = Finished(pr)]
              /\ hist' = Logged(pr, "FAILED", "raised", pr.error)
              /\ UNCHANGED budget
           \/ /\ StoreFault /\ SpendStoreFault
              /\ \E m \in ErrorMessages :
                    /\ proc' = [proc EXCEPT ![p] = Finished(pr)]
                    /\ hist' = Logged(pr, "FAILED", "raised_in_catch", m)
              /\ UNCHANGED environments
        /\ UNCHANGED <<now, routingConfig, priorities, albRules, nextArn, nextId,
                       targetGroups, ecsServices, cloudMap, sweeper>>

(***************************************************************************)
(* handleUpdate                                                            *)
(***************************************************************************)
\* line 276: existing.services[serviceId] when the item has no services attribute;
\* the key read is that of the first service.
TypeErrorMessage ==
    "Cannot read properties of undefined (reading '" \o PREVIEWABLE_SERVICES[1] \o "')"

\* Index of the first service at or after `from` that is in `wanted`; 0 when there
\* is none.
FirstFrom(from, wanted) ==
    IF \E j \in from..Len(PREVIEWABLE_SERVICES) : PREVIEWABLE_SERVICES[j] \in wanted
    THEN CHOOSE j \in from..Len(PREVIEWABLE_SERVICES) :
             /\ PREVIEWABLE_SERVICES[j] \in wanted
             /\ \A k \in from..(j - 1) : PREVIEWABLE_SERVICES[k] \notin wanted
    ELSE 0

\* The loop with the test of the ecsServiceArn left out: every service is next.
NextRedeploy_All(pr, from) ==
    IF from > Len(PREVIEWABLE_SERVICES) THEN [pr EXCEPT !.i = 0, !.pc = "u_query"]
    ELSE [pr EXCEPT !.i = from, !.pc = "u_redeploy"]

\* lines 275-292: the next service of the loop that has an ecsServiceArn, or the
\* routing config query after the loop.
NextRedeploy(pr, from) ==
    LET hasArn == {s \in ServiceIds : pr.existing[s].ecsServiceArn}
        j == FirstFrom(from, hasArn)
    IN  IF j = 0 THEN [pr EXCEPT !.i = 0, !.pc = "u_query"]
        ELSE [pr EXCEPT !.i = j, !.pc = "u_redeploy"]

\* handleUpdate without the check for a missing record.
TreatedAsCreate_Never(existing) == FALSE

\* line 244: a missing record turns the update into a create.
TreatedAsCreate(existing) == ~existing.exists

\* lines 243-251: getEnvironment, then the choice between create and update.
UpdateGet(p) ==
    LET pr == proc[p]
        existing == environments[pr.env]
    IN  /\ pr.pc = "u_get"
        /\ \/ /\ proc' = [proc EXCEPT ![p] =
                     IF TreatedAsCreate(existing)
                     THEN [pr EXCEPT !.pc = "c_get", !.expiresAt = now + TtlSeconds]
                     ELSE [pr EXCEPT !.pc = "u_upd", !.expiresAt = now + TtlSeconds,
                                     !.existing = existing.services,
                                     !.noServices = ~existing.hasServices]]
              /\ UNCHANGED budget
           \/ /\ StoreFault /\ SpendStoreFault
              /\ \E m \in ErrorMessages : proc' = [proc EXCEPT ![p] = Escapes(pr, m)]
        /\ UNCHANGED Others

\* lines 254-272: UpdateItem SET status, updatedAt, expiresAt, ttl, commitSha.
UpdateUpdating(p) ==
    LET pr == proc[p]
    IN  /\ pr.pc = "u_upd"
        /\ \/ /\ environments' = [environments EXCEPT ![pr.env] =
                     [@ EXCEPT !.exists = TRUE, !.status = "UPDATING",
                               !.expiresAt = pr.expiresAt, !.ttl = pr.expiresAt]]
              /\ proc' = [proc EXCEPT ![p] =
                     IF pr.noServices THEN Escapes(pr, TypeErrorMessage)
                     ELSE NextRedeploy(pr, 1)]
              /\ UNCHANGED budget
           \/ /\ StoreFault /\ SpendStoreFault
              /\ \E m \in ErrorMessages : proc' = [proc EXCEPT ![p] = Escapes(pr, m)]
              /\ UNCHANGED environments
        /\ UNCHANGED <<now, routingConfig, priorities, albRules, nextArn, nextId,
                       targetGroups, ecsServices, cloudMap, sweeper, hist>>

\* lines 277-288: UpdateService forceNewDeployment; a failure is logged only.
UpdateRedeploy(p) ==
    LET pr == proc[p]
    IN  /\ pr.pc = "u_redeploy"
        /\ proc' = [proc EXCEPT ![p] = NextRedeploy(pr, pr.i + 1)]
        /\ \/ UNCHANGED budget
           \/ BackendFault /\ SpendBackendFault
        /\ UNCHANGED Others

\* The service ids of the routing config items of an environment, as the Query on
\* virtualEnvId-serviceId-index returns them.
RoutingItemsOf(tbl, env) == {r.serviceId : r \in {x \in tbl : x.virtualEnvId = env}}

\* The item of `items` the for loop over result.Items handles next.
NextItem(items) == PREVIEWABLE_SERVICES[FirstFrom(1, items)]

\* updateRoutingConfigTtls, lines 702-711: the Query.
UpdateTtlQuery(p) ==
    LET pr == proc[p]
        items == RoutingItemsOf(routingConfig, pr.env)
    IN  /\ pr.pc = "u_query"
        /\ \/ /\ proc' = [proc EXCEPT ![p] =
                     IF items = {} THEN [pr EXCEPT !.pc = "u_active"]
                     ELSE [pr EXCEPT !.pc = "u_ttl", !.items = items]]
              /\ UNCHANGED budget
           \/ /\ StoreFault /\ SpendStoreFault
              /\ \E m \in ErrorMessages : proc' = [proc EXCEPT ![p] = Escapes(pr, m)]
        /\ UNCHANGED Others

\* The table after UpdateItem SET ttl on the key: the item is created, with the key
\* and the ttl alone, when the key holds none.
SetRoutingTtl(tbl, serviceId, env, ttl) ==
    IF RoutingRows(tbl, serviceId, env) = {}
    THEN tbl \cup {[serviceId |-> serviceId, virtualEnvId |-> env,
                    targetGroupArn |-> 0, albRuleArn |-> 0,
                    priority |-> 0, ttl |-> ttl]}
    ELSE {IF r.serviceId = serviceId /\ r.virtualEnvId = env
          THEN [r EXCEPT !.ttl = ttl] ELSE r : r \in tbl}

\* updateRoutingConfigTtls, lines 714-726: one item's UpdateItem.
UpdateTtl(p) ==
    LET pr == proc[p]
        item == NextItem(pr.items)
        rest == pr.items \ {item}
    IN  /\ pr.pc = "u_ttl"
        /\ \/ /\ routingConfig' = SetRoutingTtl(routingConfig, item, pr.env, pr.expiresAt)
              /\ proc' = [proc EXCEPT ![p] =
                     IF rest = {} THEN [pr EXCEPT !.pc = "u_active", !.items = {}]
                     ELSE [pr EXCEPT !.items = rest]]
              /\ UNCHANGED budget
           \/ /\ StoreFault /\ SpendStoreFault
              /\ \E m \in ErrorMessages : proc' = [proc EXCEPT ![p] = Escapes(pr, m)]
              /\ UNCHANGED routingConfig
        /\ UNCHANGED <<now, environments, priorities, albRules, nextArn, nextId,
                       targetGroups, ecsServices, cloudMap, sweeper, hist>>

\* handleUpdate, line 295.
UpdateActive(p) ==
    LET pr == proc[p]
    IN  /\ pr.pc = "u_active"
        /\ \/ /\ environments' = UpdateEnvironmentStatus(environments, pr.env, "ACTIVE", "")
              /\ proc' = [proc EXCEPT ![p] = Finished(pr)]
              /\ hist' = Logged(pr, "UPDATE", "ok", "")
              /\ UNCHANGED budget
           \/ /\ StoreFault /\ SpendStoreFault
              /\ \E m \in ErrorMessages : proc' = [proc EXCEPT ![p] = Escapes(pr, m)]
              /\ UNCHANGED <<environments, hist>>
        /\ UNCHANGED <<now, routingConfig, priorities, albRules, nextArn, nextId,
                       targetGroups, ecsServices, cloudMap, sweeper>>

(***************************************************************************)
(* handleDestroy and cleanupService                                        *)
(***************************************************************************)
\* The steps with the target group deleted before the compute service.
CleanupSteps_TargetFirst == <<"x_rule", "x_tg", "x_scale", "x_cm", "x_getrc">>

\* The steps of cleanupService in the order of the code, lines 563-630.
CleanupSteps == <<"x_rule", "x_scale", "x_tg", "x_cm", "x_getrc">>

\* Whether cleanupService takes the step for this ServiceState: each backend
\* step is guarded by its handle, the routing config is always read.
StepApplies(step, state) ==
    CASE step = "x_rule"  -> state.albRuleArn # 0
      [] step = "x_scale" -> state.ecsServiceArn
      [] step = "x_tg"    -> state.targetGroupArn # 0
      [] step = "x_cm"    -> state.cloudMapServiceId # 0
      [] OTHER            -> TRUE

\* The first step at or after position `k` of CleanupSteps that applies.
StepFrom(k, state) ==
    CleanupSteps[CHOOSE j \in k..Len(CleanupSteps) :
                     /\ StepApplies(CleanupSteps[j], state)
                     /\ \A h \in k..(j - 1) : ~StepApplies(CleanupSteps[h], state)]

\* cleanupService goes on after the step at position `k`.
AfterStep(pr, k) ==
    [pr EXCEPT !.pc = StepFrom(k + 1, pr.existing[Service(pr)])]

\* handleDestroy, lines 315-325: the next key of existing.services, or the routing
\* config cleanup after the loop.
NextCleanup(pr, from) ==
    LET recorded == {s \in ServiceIds : pr.existing[s].status # ""}
        j == FirstFrom(from, recorded)
    IN  IF j = 0 THEN [pr EXCEPT !.i = 0, !.priority = 0, !.pc = "x_rcquery"]
        ELSE [pr EXCEPT !.i = j, !.priority = 0,
                        !.pc = StepFrom(1, pr.existing[PREVIEWABLE_SERVICES[j]])]

\* lines 305-309: getEnvironment; no record, nothing to destroy.
DestroyGet(p) ==
    LET pr == proc[p]
        existing == environments[pr.env]
    IN  /\ pr.pc = "x_get"
        /\ \/ /\ proc' = [proc EXCEPT ![p] =
                     IF ~existing.exists THEN Finished(pr)
                     ELSE [pr EXCEPT !.pc = "x_destroying",
                                     !.existing = existing.services,
                                     !.noServices = ~existing.hasServices]]
              /\ hist' = IF ~existing.exists THEN Logged(pr, "NOT_FOUND", "ok", "") ELSE hist
              /\ UNCHANGED budget
           \/ /\ StoreFault /\ SpendStoreFault
              /\ \E m \in ErrorMessages : proc' = [proc EXCEPT ![p] = Escapes(pr, m)]
              /\ UNCHANGED hist
        /\ UNCHANGED <<now, environments, routingConfig, priorities, albRules, nextArn, nextId,
                       targetGroups, ecsServices, cloudMap, sweeper>>

\* line 315: Object.keys(existing.services) when the item has no services
\* attribute.
KeysErrorMessage == "Cannot convert undefined or null to object"

\* line 312: status DESTROYING; then Object.keys(existing.services).
DestroyDestroying(p) ==
    LET pr == proc[p]
    IN  /\ pr.pc = "x_destroying"
        /\ \/ /\ environments' =
                     UpdateEnvironmentStatus(environments, pr.env, "DESTROYING", "")
              /\ proc' = [proc EXCEPT ![p] =
                     IF pr.noServices THEN Escapes(pr, KeysErrorMessage)
                     ELSE NextCleanup(pr, 1)]
              /\ UNCHANGED budget
           \/ /\ StoreFault /\ SpendStoreFault
              /\ \E m \in ErrorMessages : proc' = [proc EXCEPT ![p] = Escapes(pr, m)]
              /\ UNCHANGED environments
        /\ UNCHANGED <<now, routingConfig, priorities, albRules, nextArn, nextId,
                       targetGroups, ecsServices, cloudMap, sweeper, hist>>

\* lines 564-573: DeleteRule by ARN; a failure (the rule is gone, or the call
\* fails) is logged only.
CleanupRule(p) ==
    LET pr == proc[p]
        arn == pr.existing[Service(pr)].albRuleArn
    IN  /\ pr.pc = "x_rule"
        /\ proc' = [proc EXCEPT ![p] = AfterStep(pr, 1)]
        /\ \/ /\ albRules' = {r \in albRules : r.arn # arn}
              /\ UNCHANGED budget
           \/ /\ BackendFault /\ SpendBackendFault
              /\ UNCHANGED albRules
        /\ UNCHANGED <<now, environments, routingConfig, priorities, nextArn, nextId,
                       targetGroups, ecsServices, cloudMap, sweeper, hist>>

\* lines 576-583: UpdateService desiredCount 0, by service name.  When it fails
\* (no such service, or the call fails) the delete in the same try is skipped.
CleanupScale(p) ==
    LET pr == proc[p]
        name == <<pr.env, Service(pr)>>
    IN  /\ pr.pc = "x_scale"
        /\ \/ /\ name \in ecsServices
              /\ proc' = [proc EXCEPT ![p] = [pr EXCEPT !.pc = "x_delete"]]
              /\ UNCHANGED budget
           \/ /\ name \notin ecsServices
              /\ proc' = [proc EXCEPT ![p] = AfterStep(pr, 2)]
              /\ UNCHANGED budget
           \/ /\ BackendFault /\ SpendBackendFault
              /\ proc' = [proc EXCEPT ![p] = AfterStep(pr, 2)]
        /\ UNCHANGED Others

\* lines 585-596: after the drain wait, DeleteService by name.
CleanupDelete(p) ==
    LET pr == proc[p]
        name == <<pr.env, Service(pr)>>
    IN  /\ pr.pc = "x_delete"
        /\ proc' = [proc EXCEPT ![p] = AfterStep(pr, 2)]
        /\ \/ /\ ecsServices' = ecsServices \ {name}
              /\ UNCHANGED budget
           \/ /\ BackendFault /\ SpendBackendFault
              /\ UNCHANGED ecsServices
        /\ UNCHANGED <<now, environments, routingConfig, priorities, albRules, nextArn, nextId,
                       targetGroups, cloudMap, sweeper, hist>>

\* lines 600-612: DeleteTargetGroup by the ARN of the ServiceState.  The load
\* balancer refuses to delete a target group that a listener rule forwards to; a
\* group that is gone leaves nothing to delete.
CleanupTargetGroup(p) ==
    LET pr == proc[p]
        arn == pr.existing[Service(pr)].targetGroupArn
        inUse == \E r \in albRules : r.virtualEnvId = pr.env /\ r.serviceId = Service(pr)
    IN  /\ pr.pc = "x_tg"
        /\ proc' = [proc EXCEPT ![p] = AfterStep(pr, 3)]
        /\ \/ /\ targetGroups' = IF inUse THEN targetGroups
                                 ELSE {g \in targetGroups : g.arn # arn}
              /\ UNCHANGED budget
           \/ /\ BackendFault /\ SpendBackendFault
              /\ UNCHANGED targetGroups
        /\ UNCHANGED <<now, environments, routingConfig, priorities, albRules, nextArn, nextId,
                       ecsServices, cloudMap, sweeper, hist>>

\* lines 615-624: delete the Cloud Map service by the Id of the ServiceState; a
\* failure (no service of that Id, or the call fails) is logged only.
CleanupCloudMap(p) ==
    LET pr == proc[p]
        id == pr.existing[Service(pr)].cloudMapServiceId
    IN  /\ pr.pc = "x_cm"
        /\ proc' = [proc EXCEPT ![p] = AfterStep(pr, 4)]
        /\ \/ /\ cloudMap' = {c \in cloudMap : c.id # id}
              /\ UNCHANGED budget
           \/ /\ BackendFault /\ SpendBackendFault
              /\ UNCHANGED cloudMap
        /\ UNCHANGED <<now, environments, routingConfig, priorities, albRules, nextArn, nextId,
                       targetGroups, ecsServices, sweeper, hist>>

\* lines 627-630: getRoutingConfig.  With no item there is nothing to release; an
\* item without a priority makes releasePriority fail inside its own try.
CleanupGetRouting(p) ==
    LET pr == proc[p]
        rows == RoutingRows(routingConfig, Service(pr), pr.env)
        priority == IF rows = {} THEN 0 ELSE (CHOOSE r \in rows : TRUE).priority
    IN  /\ pr.pc = "x_getrc"
        /\ \/ /\ proc' = [proc EXCEPT ![p] =
                     IF priority = 0 THEN NextCleanup(pr, pr.i + 1)
                     ELSE [pr EXCEPT !.pc = "x_release", !.priority = priority]]
              /\ UNCHANGED budget
           \/ \* the read fails: caught by the try around cleanupService, line 319
              /\ StoreFault /\ SpendStoreFault
              /\ proc' = [proc EXCEPT ![p] = NextCleanup(pr, pr.i + 1)]
        /\ UNCHANGED Others

\* releasePriority, lines 810-822: unconditional DeleteItem of the key; a failure
\* is logged only.
ReleasePriority(tbl, priority) == DeletePriority(tbl, priority)

CleanupRelease(p) ==
    LET pr == proc[p]
    IN  /\ pr.pc = "x_release"
        /\ proc' = [proc EXCEPT ![p] = NextCleanup(pr, pr.i + 1)]
        /\ \/ /\ priorities' = ReleasePriority(priorities, pr.priority)
              /\ UNCHANGED budget
           \/ /\ StoreFault /\ SpendStoreFault
              /\ UNCHANGED priorities
        /\ UNCHANGED <<now, environments, routingConfig, albRules, nextArn, nextId,
                       targetGroups, ecsServices, cloudMap, sweeper, hist>>

\* cleanupRoutingConfig, lines 731-741: the Query.
CleanupRoutingQuery(p) ==
    LET pr == proc[p]
        items == RoutingItemsOf(routingConfig, pr.env)
    IN  /\ pr.pc = "x_rcquery"
        /\ \/ /\ proc' = [proc EXCEPT ![p] =
                     IF items = {} THEN [pr EXCEPT !.pc = "x_destroyed"]
                     ELSE [pr EXCEPT !.pc = "x_rcdel", !.items = items]]
              /\ UNCHANGED budget
           \/ /\ StoreFault /\ SpendStoreFault
              /\ \E m \in ErrorMessages : proc' = [proc EXCEPT ![p] = Escapes(pr, m)]
        /\ UNCHANGED Others

\* cleanupRoutingConfig, lines 744-754: one item's DeleteItem.
CleanupRoutingDelete(p) ==
    LET pr == proc[p]
        item == NextItem(pr.items)
        rest == pr.items \ {item}
    IN  /\ pr.pc = "x_rcdel"
        /\ \/ /\ routingConfig' = routingConfig \ RoutingRows(routingConfig, item, pr.env)
              /\ proc' = [proc EXCEPT ![p] =
                     IF rest = {} THEN [pr EXCEPT !.pc = "x_destroyed", !.items = {}]
                     ELSE [pr EXCEPT !.items = rest]]
              /\ UNCHANGED budget
           \/ /\ StoreFault /\ SpendStoreFault
              /\ \E m \in ErrorMessages : proc' = [proc EXCEPT ![p] = Escapes(pr, m)]
              /\ UNCHANGED routingConfig
        /\ UNCHANGED <<now, environments, priorities, albRules, nextArn, nextId,
                       targetGroups, ecsServices, cloudMap, sweeper, hist>>

\* handleDestroy, line 328.
DestroyDestroyed(p) ==
    LET pr == proc[p]
    IN  /\ pr.pc = "x_destroyed"
        /\ \/ /\ environments' =
                     UpdateEnvironmentStatus(environments, pr.env, "DESTROYED", "")
              /\ proc' = [proc EXCEPT ![p] = Finished(pr)]
              /\ hist' = Logged(pr, "DESTROY", "ok", "")
              /\ UNCHANGED budget
           \/ /\ StoreFault /\ SpendStoreFault
              /\ \E m \in ErrorMessages : proc' = [proc EXCEPT ![p] = Escapes(pr, m)]
              /\ UNCHANGED <<environments, hist>>
        /\ UNCHANGED <<now, routingConfig, priorities, albRules, nextArn, nextId,
                       targetGroups, ecsServices, cloudMap, sweeper>>

(***************************************************************************)
(* The clock and the store's time-to-live.  Every table names `ttl` as its *)
(* timeToLiveAttribute: the store deletes an item once its ttl has passed. *)
(***************************************************************************)
TimeSteps == {TtlSeconds, TtlSeconds + 1, TtlSeconds + GraceSeconds,
              TtlSeconds + GraceSeconds + 1}

\* An invocation runs for five minutes at most (the timeout of the functions) and
\* the clock steps by a day or more: it steps between invocations.
Advance ==
    /\ budget.advances > 0
    /\ \A p \in Procs : proc[p].pc = "idle"
    /\ sweeper.pc = "idle"
    /\ \E d \in TimeSteps : now' = now + d
    /\ budget' = [budget EXCEPT !.advances = @ - 1]
    /\ UNCHANGED <<environments, routingConfig, priorities, albRules, nextArn, nextId,
                   targetGroups, ecsServices, cloudMap, proc, sweeper, hist>>

\* A second passes; invocations that are running go on (each reads Date.now() on
\* entry, lines 174 and 251).
Tick ==
    /\ budget.advances > 0
    /\ now' = now + 1
    /\ budget' = [budget EXCEPT !.advances = @ - 1]
    /\ UNCHANGED <<environments, routingConfig, priorities, albRules, nextArn, nextId,
                   targetGroups, ecsServices, cloudMap, proc, sweeper, hist>>

\* An item is due for deletion by the store: it has a ttl and the ttl has passed.
TtlPassed(ttl) == ttl # 0 /\ ttl < now

ExpireEnvironment ==
    /\ \E e \in Envs :
          /\ environments[e].exists
          /\ TtlPassed(environments[e].ttl)
          /\ environments' = [environments EXCEPT ![e] = NoEnvironment]
    /\ UNCHANGED <<now, routingConfig, priorities, albRules, nextArn, nextId,
                   targetGroups, ecsServices, cloudMap, proc, sweeper, budget, hist>>

ExpireRouting ==
    /\ \E r \in routingConfig :
          /\ TtlPassed(r.ttl)
          /\ routingConfig' = routingConfig \ {r}
    /\ UNCHANGED <<now, environments, priorities, albRules, nextArn, nextId,
                   targetGroups, ecsServices, cloudMap, proc, sweeper, budget, hist>>

ExpirePriority ==
    /\ \E r \in priorities :
          /\ TtlPassed(r.ttl)
          /\ priorities' = priorities \ {r}
    /\ UNCHANGED <<now, environments, routingConfig, albRules, nextArn, nextId,
                   targetGroups, ecsServices, cloudMap, proc, sweeper, budget, hist>>

(***************************************************************************)
(* The cleanup handler (the sweeper)                                       *)
(***************************************************************************)
\* findExpiredEnvironments, lines 70-89: Query on status-expiresAt-index; an item
\* without an expiresAt is not in the index.
FindExpired(tbl, time) ==
    {e \in Envs : /\ tbl[e].exists
                  /\ tbl[e].status = "ACTIVE"
                  /\ tbl[e].expiresAt # 0
                  /\ tbl[e].expiresAt < time}

FindOverdue_UpdatingOnly(tbl, time) ==
    {e \in Envs : /\ tbl[e].exists
                  /\ tbl[e].status = "UPDATING"
                  /\ tbl[e].expiresAt # 0
                  /\ tbl[e].expiresAt < time - GraceSeconds}

\* findOverdueEnvironments, lines 91-110: Scan with the filter expression.
FindOverdue(tbl, time) ==
    {e \in Envs : /\ tbl[e].exists
                  /\ tbl[e].status \in {"CREATING", "UPDATING"}
                  /\ tbl[e].expiresAt # 0
                  /\ tbl[e].expiresAt < time - GraceSeconds}

\* handler, lines 44-49: combine and deduplicate.
EnvironmentsToCleanup(expired, overdue) ==
    expired \cup {e \in overdue : e \notin expired}

IdleSweeper == [pc |-> "idle", expired |-> {}, toCleanup |-> {}]

SweepExpired ==
    /\ sweeper.pc = "idle"
    /\ budget.sweeps > 0
    /\ budget' = [budget EXCEPT !.sweeps = @ - 1]
    /\ sweeper' = [sweeper EXCEPT !.pc = "overdue",
                                  !.expired = FindExpired(environments, now)]
    /\ UNCHANGED <<now, environments, routingConfig, priorities, albRules, nextArn, nextId,
                   targetGroups, ecsServices, cloudMap, proc, hist>>

SweepOverdue ==
    /\ sweeper.pc = "overdue"
    /\ LET toCleanup ==
               EnvironmentsToCleanup(sweeper.expired, FindOverdue(environments, now))
       IN  sweeper' = IF toCleanup = {} THEN IdleSweeper
                      ELSE [sweeper EXCEPT !.pc = "emit", !.toCleanup = toCleanup]
    /\ UNCHANGED <<now, environments, routingConfig, priorities, albRules, nextArn, nextId,
                   targetGroups, ecsServices, cloudMap, proc, budget, hist>>

\* emitDestroyEvent, lines 112-140: PutEvents with Source 'virtual-env.cleanup';
\* the bus hands the event to the controller when a rule matches it.
SweepEmit ==
    /\ sweeper.pc = "emit"
    /\ \E e \in sweeper.toCleanup :
          /\ hist' = [hist EXCEPT
                 !.emitted[e] = @ + 1,
                 !.pending[e] = IF RuleMatches(cleanupEventSource, "DESTROY")
                                THEN @ + 1 ELSE @]
          /\ sweeper' = IF sweeper.toCleanup = {e} THEN IdleSweeper
                        ELSE [sweeper EXCEPT !.toCleanup = @ \ {e}]
    /\ UNCHANGED <<now, environments, routingConfig, priorities, albRules, nextArn, nextId,
                   targetGroups, ecsServices, cloudMap, proc, budget>>

(***************************************************************************)
(* The dashboard: POST /api/environments/[envId]/extend                   *)
(***************************************************************************)
\* The `hours` of the request body; 0 stands for a body without hours.
ExtensionInputs == {0, 1}

\* route.ts, line 21: body.hours || DEFAULT_EXTENSION_HOURS.
ExtensionHours(hours) == IF hours = 0 THEN DEFAULT_EXTENSION_HOURS ELSE hours

\* route.ts, lines 33-34: the new TTL, from the ttlTimestamp of the item that
\* getEnvironment returned or, when the item has none, from the clock.
NewTtl(item, extensionHours) ==
    (IF item.ttlTimestamp # 0 THEN item.ttlTimestamp ELSE now)
        + extensionHours * 60 * 60

\* updateEnvironmentTTL, dynamodb.ts lines 81-96: UpdateItem with SET ttlTimestamp,
\* updatedAt and no ConditionExpression.  The item of the key is updated; when
\* there is none, one is created that has the key and these attributes alone.
UpdateEnvironmentTTL(tbl, env, newTtl) ==
    [tbl EXCEPT ![env] = [@ EXCEPT !.exists = TRUE, !.ttlTimestamp = newTtl]]

\* The response of the route, as the last thing observed for the environment.
Responded(pr, outcome, error) == Logged(pr, "EXTEND", outcome, error)

\* route.ts, lines 9-21: a POST arrives.  Without a session it is answered 401;
\* else the hours are read from the body and getEnvironment is called next.
ExtendRequest(p) ==
    /\ proc[p].pc = "idle"
    /\ budget.events > 0
    /\ LET overlaps == \E q \in Procs : proc[q].pc # "idle"
       IN  /\ overlaps => budget.overlaps > 0
           /\ budget' = [budget EXCEPT !.events = @ - 1,
                                       !.overlaps = IF overlaps THEN @ - 1 ELSE @]
    \* the requests are interchangeable: the first idle one takes the POST
    /\ \A q \in Procs : q < p => proc[q].pc # "idle"
    /\ \E env \in budget.envs, hours \in ExtensionInputs, session \in BOOLEAN :
          LET pr == [IdleProc EXCEPT !.action = "EXTEND", !.env = env,
                                     !.extensionHours = ExtensionHours(hours)]
          IN  IF session
              THEN /\ proc' = [proc EXCEPT ![p] = [pr EXCEPT !.pc = "t_get"]]
                   /\ UNCHANGED hist
              ELSE /\ hist' = Responded(pr, "unauthorized", "Unauthorized")
                   /\ UNCHANGED proc
    /\ UNCHANGED <<now, environments, routingConfig, priorities, albRules, nextArn, nextId,
                   targetGroups, ecsServices, cloudMap, sweeper>>

\* route.ts, lines 23-34: getEnvironment (GetItem, dynamodb.ts lines 68-79).  No
\* item: 404.  Else the new TTL is computed from the item read, and
\* updateEnvironmentTTL is called next.  A GetItem that fails: 500 (lines 44-50).
ExtendGetEnvironment(p) ==
    LET pr == proc[p]
        environment == environments[pr.env]
    IN  /\ pr.pc = "t_get"
        /\ \/ /\ environment.exists
              /\ proc' = [proc EXCEPT ![p] =
                     [pr EXCEPT !.newTtl = NewTtl(environment, pr.extensionHours),
                                !.pc = "t_update"]]
              /\ UNCHANGED <<hist, budget>>
           \/ /\ ~environment.exists
              /\ proc' = [proc EXCEPT ![p] = Finished(pr)]
              /\ hist' = Responded(pr, "not_found", "Environment not found")
              /\ UNCHANGED budget
           \/ /\ StoreFault
              /\ SpendStoreFault
              /\ proc' = [proc EXCEPT ![p] = Finished(pr)]
              /\ hist' = Responded(pr, "failed", "Failed to extend TTL")
        /\ UNCHANGED <<now, environments, routingConfig, priorities, albRules, nextArn,
                       nextId, targetGroups, ecsServices, cloudMap, sweeper>>

\* route.ts, lines 36-43: updateEnvironmentTTL with the TTL computed from the item
\* read before, whatever the table holds by now; then the success response.  An
\* UpdateItem that fails: 500 (lines 44-50).
ExtendUpdateEnvironmentTTL(p) ==
    LET pr == proc[p]
    IN  /\ pr.pc = "t_update"
        /\ \/ /\ environments' = UpdateEnvironmentTTL(environments, pr.env, pr.newTtl)
              /\ hist' = Responded(pr, "ok", "")
              /\ UNCHANGED budget
           \/ /\ StoreFault
              /\ SpendStoreFault
              /\ hist' = Responded(pr, "failed", "Failed to extend TTL")
              /\ UNCHANGED environments
        /\ proc' = [proc EXCEPT ![p] = Finished(pr)]
        /\ UNCHANGED <<now, routingConfig, priorities, albRules, nextArn, nextId,
                       targetGroups, ecsServices, cloudMap, sweeper>>

\* route.ts, lines 8-51: POST, one request of the dashboard from its arrival to
\* its response.
ExtendTtl(p) ==
    ExtendRequest(p) \/ ExtendGetEnvironment(p) \/ ExtendUpdateEnvironmentTTL(p)

(***************************************************************************)
(* A direct call of allocatePriority (the allocator on its own)            *)
(***************************************************************************)
AllocateCall(p) ==
    /\ proc[p].pc = "idle"
    /\ (\E q \in Procs : proc[q].pc # "idle") => budget.overlaps > 0
    /\ \E env \in budget.envs, i \in 1..Len(PREVIEWABLE_SERVICES) :
          proc' = [proc EXCEPT ![p] =
              [IdleProc EXCEPT !.action = "ALLOCATE", !.env = env, !.i = i,
                               !.expiresAt = now + TtlSeconds, !.pc = "a_query"]]
    /\ UNCHANGED <<now, environments, routingConfig, priorities, albRules, nextArn, nextId,
                   targetGroups, ecsServices, cloudMap, sweeper, budget, hist>>

\* The call of allocatePriority is over: it returned its priority or threw.
CallReturns(p) ==
    LET pr == proc[p]
    IN  /\ pr.pc \in {"returned", "exhausted", "threw"}
        /\ budget.events > 0
        /\ budget' = [budget EXCEPT !.events = @ - 1]
        /\ proc' = [proc EXCEPT ![p] = IdleProc]
        /\ hist' = [hist EXCEPT !.trace = Append(@,
               [action |-> "ALLOCATE", env |-> pr.env, serviceId |-> Service(pr),
                priority |-> pr.priority, outcome |-> pr.pc, error |-> pr.error])]
        /\ UNCHANGED <<now, environments, routingConfig, priorities, albRules, nextArn, nextId,
                       targetGroups, ecsServices, cloudMap, sweeper>>

\* The priorities releasePriority is called with.
ReleaseInputs == {MaxPriority - 1, MaxPriority}

\* A direct call of releasePriority, lines 810-822: the DeleteItem, and the catch
\* that logs its failure; the call returns in either case.
ReleaseCall(p) ==
    /\ proc[p].pc = "idle"
    /\ (\E q \in Procs : proc[q].pc # "idle") => budget.overlaps > 0
    /\ \A q \in Procs : q < p => proc[q].pc # "idle"
    /\ budget.events > 0
    /\ \E k \in ReleaseInputs :
          /\ hist' = [hist EXCEPT !.trace = Append(@,
                 [action |-> "RELEASE", env |-> "", serviceId |-> "",
                  priority |-> k, outcome |-> "returned", error |-> ""])]
          /\ \/ /\ priorities' = ReleasePriority(priorities, k)
                /\ budget' = [budget EXCEPT !.events = @ - 1]
             \/ /\ StoreFault
                /\ budget' = [budget EXCEPT !.events = @ - 1, !.storeFaults = @ - 1]
                /\ UNCHANGED priorities
    /\ UNCHANGED <<now, environments, routingConfig, albRules, nextArn, nextId,
                   targetGroups, ecsServices, cloudMap, proc, sweeper>>

(***************************************************************************)
(* Initial states and specifications                                       *)
(***************************************************************************)
\* Rows of PRIORITIES_TABLE held by environments other than the modelled ones:
\* the lowest `n` priorities, as the allocator hands them out.
Prefilled(n) ==
    {[priority |-> k, virtualEnvId |-> OtherEnv,
      serviceId |-> PREVIEWABLE_SERVICES[1], ttl |-> TtlSeconds] : k \in MinPriority..n}

NoEntry == [action |-> "", env |-> "", handledAs |-> "", outcome |-> "", error |-> ""]

NoHistory ==
    [emitted |-> [e \in Envs |-> 0], pending |-> [e \in Envs |-> 0],
     delivered |-> [e \in Envs |-> 0], last |-> [e \in Envs |-> NoEntry],
     trace |-> <<>>]

InitWith(b, rows) ==
    /\ now = 0
    /\ environments = [e \in Envs |-> NoEnvironment]
    /\ routingConfig = {}
    /\ priorities = rows
    /\ albRules = {}
    /\ nextArn = 1
    /\ nextId = FirstIds
    /\ targetGroups = {}
    /\ ecsServices = {}
    /\ cloudMap = {}
    /\ proc = [p \in Procs |-> IdleProc]
    /\ sweeper = IdleSweeper
    /\ budget = b
    /\ hist = NoHistory

Controller(p) ==
    \/ Invoke(p)
    \/ CreateGet(p) \/ CreatePut(p)
    \/ DeployTaskDef(p) \/ DeployTargetGroup(p)
    \/ AllocateQuery(p) \/ AllocatePut(p)
    \/ DeployRule(p) \/ DeployCloudMap(p) \/ DeployEcsService(p) \/ DeployRouting(p)
    \/ CreateServicesUpdate(p) \/ CreateFailedUpdate(p) \/ CreateActive(p)
    \/ UpdateGet(p) \/ UpdateUpdating(p) \/ UpdateRedeploy(p)
    \/ UpdateTtlQuery(p) \/ UpdateTtl(p) \/ UpdateActive(p)
    \/ DestroyGet(p) \/ DestroyDestroying(p)
    \/ CleanupRule(p) \/ CleanupScale(p) \/ CleanupDelete(p)
    \/ CleanupTargetGroup(p) \/ CleanupCloudMap(p)
    \/ CleanupGetRouting(p) \/ CleanupRelease(p)
    \/ CleanupRoutingQuery(p) \/ CleanupRoutingDelete(p) \/ DestroyDestroyed(p)

Handler(p) == Controller(p) \/ HandlerFailed(p)

\* Concurrent invocations of the controller against a reliable state store and
\* reliable backends: a backend call fails only when the backend refuses it (a
\* name or a priority already taken, a target group in use).  With a reliable
\* store no exception reaches the catch block of the handler.
Init ==
    InitWith([events |-> MaxEvents, backendFaults |-> 0, storeFaults |-> 0,
              advances |-> 0, sweeps |-> 0, overlaps |-> MaxOverlap, logging |-> FALSE, envs |-> Envs, actions |-> Actions], {})

Next == \E p \in Procs : Controller(p)

Spec == Init /\ [][Next]_vars

\* The same, with the actions issued in succession: an action is delivered when
\* the one before it has completed.
InitSeq ==
    InitWith([events |-> MaxEvents, backendFaults |-> MaxFaults, storeFaults |-> 0,
              advances |-> 0, sweeps |-> 0, overlaps |-> 0, logging |-> TRUE, envs |-> Envs, actions |-> Actions], {})

SpecSeq == InitSeq /\ [][Next]_vars

\* Actions issued in succession against a state store whose calls may fail.
InitStore ==
    InitWith([events |-> MaxEvents, backendFaults |-> 0, storeFaults |-> MaxStoreFaults,
              advances |-> 0, sweeps |-> 0, overlaps |-> 0, logging |-> TRUE, envs |-> Envs, actions |-> Actions], {})

NextStore == \E p \in Procs : Handler(p)

SpecStore == InitStore /\ [][NextStore]_vars

\* Actions issued in succession, with the clock, the store's time-to-live and the
\* sweeper.
InitSweep ==
    InitWith([events |-> MaxSweepEvents, backendFaults |-> 0, storeFaults |-> 0,
              advances |-> MaxAdvance, sweeps |-> MaxSweeps, overlaps |-> 0,
              logging |-> FALSE, envs |-> SweepEnvs, actions |-> Actions], {})

NextSweep ==
    \/ \E p \in Procs : Handler(p)
    \/ Advance
    \/ ExpireEnvironment \/ ExpireRouting \/ ExpirePriority
    \/ SweepExpired \/ SweepOverdue \/ SweepEmit

SpecSweep == InitSweep /\ [][NextSweep]_vars

\* The allocator on its own: NProcs concurrent calls against a table in which at
\* most FreeSlots priorities are free.
InitAlloc ==
    \E free \in 0..FreeSlots :
        InitWith([events |-> 0, backendFaults |-> 0, storeFaults |-> 0,
                  advances |-> 0, sweeps |-> 0, overlaps |-> MaxOverlap, logging |-> FALSE,
                  envs |-> Envs, actions |-> Actions],
                 Prefilled(MaxPriority - free))

NextAlloc == \E p \in Procs : AllocateCall(p) \/ AllocateQuery(p) \/ AllocatePut(p)

SpecAlloc == InitAlloc /\ [][NextAlloc]_vars

\* Position of a service in PREVIEWABLE_SERVICES.
IndexOf(s) == CHOOSE i \in 1..Len(PREVIEWABLE_SERVICES) : PREVIEWABLE_SERVICES[i] = s

\* What handleCreate leaves behind for environment `e` when it runs at time 0
\* against empty tables and every call succeeds: the services are deployed in the
\* order of PREVIEWABLE_SERVICES, service number i gets priority i, rule ARN i,
\* target group ARN i and registry service Id i.
DeployedServices ==
    [s \in ServiceIds |->
        [status |-> "ACTIVE", taskDefinitionArn |-> TRUE, targetGroupArn |-> IndexOf(s),
         albRuleArn |-> IndexOf(s), cloudMapServiceId |-> IndexOf(s),
         ecsServiceArn |-> TRUE]]

DeployedRecord ==
    [exists |-> TRUE, status |-> "ACTIVE", hasServices |-> TRUE,
     services |-> DeployedServices, expiresAt |-> TtlSeconds, ttl |-> TtlSeconds,
     ttlTimestamp |-> 0, lastError |-> ""]

Deployed(e) ==
    /\ environments = [x \in Envs |-> IF x = e THEN DeployedRecord ELSE NoEnvironment]
    /\ routingConfig =
          {[serviceId |-> s, virtualEnvId |-> e, targetGroupArn |-> IndexOf(s),
            albRuleArn |-> IndexOf(s), priority |-> IndexOf(s), ttl |-> TtlSeconds] :
           s \in ServiceIds}
    /\ priorities =
          {[priority |-> IndexOf(s), virtualEnvId |-> e, serviceId |-> s,
            ttl |-> TtlSeconds] : s \in ServiceIds}
    /\ albRules =
          {[arn |-> IndexOf(s), virtualEnvId |-> e, serviceId |-> s,
            priority |-> IndexOf(s)] : s \in ServiceIds}
    /\ nextArn = Len(PREVIEWABLE_SERVICES) + 1
    /\ nextId = [targetGroup |-> Len(PREVIEWABLE_SERVICES) + 1,
                 cloudMap |-> Len(PREVIEWABLE_SERVICES) + 1]
    /\ targetGroups = {[name |-> <<e, s>>, arn |-> IndexOf(s)] : s \in ServiceIds}
    /\ ecsServices = {<<e, s>> : s \in ServiceIds}
    /\ cloudMap = {[name |-> <<e, s>>, id |-> IndexOf(s)] : s \in ServiceIds}

InitDeployed(b, e) ==
    /\ now = 0
    /\ Deployed(e)
    /\ proc = [p \in Procs |-> IdleProc]
    /\ sweeper = IdleSweeper
    /\ budget = b
    /\ hist = NoHistory

\* Concurrent invocations of the controller for an environment that is deployed
\* and ACTIVE.
InitRace ==
    InitDeployed([events |-> MaxRaceEvents, backendFaults |-> MaxFaults,
                  storeFaults |-> 0, advances |-> 0, sweeps |-> 0,
                  overlaps |-> MaxOverlap, logging |-> TRUE, envs |-> SweepEnvs, actions |-> Actions],
                 "pr-1")

SpecRace == InitRace /\ [][Next]_vars

\* Actions issued in succession while other environments hold all priorities of
\* the range but at most MaxFullFree.
InitFull ==
    \E free \in 0..MaxFullFree :
        InitWith([events |-> MaxFullEvents, backendFaults |-> 0, storeFaults |-> 0,
                  advances |-> 0, sweeps |-> 0, overlaps |-> 0, logging |-> TRUE,
                  envs |-> SweepEnvs, actions |-> Actions],
                 Prefilled(MaxPriority - free))

SpecFull == InitFull /\ [][Next]_vars

\* One run of the sweeper against a table as invocations of the controller, some
\* of them cut short, have left it at time `now`: for each environment no record,
\* or a record of any status, written by handleCreate at time 0 (expiresAt
\* TtlSeconds) or born of an UpdateItem (no expiresAt).
Statuses == {"CREATING", "ACTIVE", "UPDATING", "DESTROYING", "DESTROYED", "FAILED"}

StoredRecords ==
    {NoEnvironment} \cup
    {[NoEnvironment EXCEPT !.exists = TRUE, !.status = st, !.expiresAt = x, !.ttl = x] :
        st \in Statuses, x \in {0, TtlSeconds}}

InitSelect ==
    /\ now \in TimeSteps
    /\ environments \in [Envs -> StoredRecords]
    /\ routingConfig = {}
    /\ priorities = {}
    /\ albRules = {}
    /\ nextArn = 1
    /\ nextId = FirstIds
    /\ targetGroups = {}
    /\ ecsServices = {}
    /\ cloudMap = {}
    /\ proc = [p \in Procs |-> IdleProc]
    /\ sweeper = IdleSweeper
    /\ budget = [events |-> 0, backendFaults |-> 0, storeFaults |-> 0, advances |-> 0,
                 sweeps |-> MaxSweeps, overlaps |-> 0, logging |-> FALSE, envs |-> Envs, actions |-> Actions]
    /\ hist = NoHistory

NextSelect == SweepExpired \/ SweepOverdue \/ SweepEmit

SpecSelect == InitSelect /\ [][NextSelect]_vars

\* The allocator and the release on their own, called again and again against a
\* table in which at most MaxFullFree priorities are free, on a store whose calls
\* may fail.
InitRelease ==
    \E free \in 0..MaxFullFree :
        InitWith([events |-> MaxCalls, backendFaults |-> 0, storeFaults |-> MaxFaults,
                  advances |-> 0, sweeps |-> 0, overlaps |-> 0, logging |-> TRUE,
                  envs |-> SweepEnvs, actions |-> Actions],
                 Prefilled(MaxPriority - free))

NextRelease ==
    \E p \in Procs :
        \/ AllocateCall(p) \/ AllocateQuery(p) \/ AllocatePut(p)
        \/ CallReturns(p) \/ ReleaseCall(p)

SpecRelease == InitRelease /\ [][NextRelease]_vars

\* A deployed environment, the dashboard's requests to extend its time-to-live,
\* two of them in flight at most, the clock, the store's time-to-live and the
\* sweeper.
InitDash ==
    InitDeployed([events |-> MaxExtends, backendFaults |-> 0,
                  storeFaults |-> MaxFaults, advances |-> MaxAdvance,
                  sweeps |-> MaxSweeps, overlaps |-> MaxOverlap,
                  logging |-> FALSE, envs |-> SweepEnvs, actions |-> Actions],
                 "pr-1")

NextDash ==
    \/ \E p \in Procs : ExtendTtl(p)
    \/ Advance
    \/ ExpireEnvironment
    \/ SweepExpired \/ SweepOverdue \/ SweepEmit

SpecDash == InitDash /\ [][NextDash]_vars

\* Concurrent invocations of the controller for a deployed environment, seconds
\* apart.
InitMirror ==
    InitDeployed([events |-> MaxMirrorEvents, backendFaults |-> MaxFaults,
                  storeFaults |-> 0, advances |-> MaxTicks, sweeps |-> 0,
                  overlaps |-> MaxOverlap, logging |-> TRUE, envs |-> SweepEnvs, actions |-> Actions],
                 "pr-1")

NextMirror == (\E p \in Procs : Controller(p)) \/ Tick

SpecMirror == InitMirror /\ [][NextMirror]_vars

\* Concurrent invocations for a deployed environment and for another one; the
\* events are those that open and close a pull request.
InitOwners ==
    InitDeployed([events |-> MaxOwnerEvents, backendFaults |-> 0, storeFaults |-> 0,
                  advances |-> 0, sweeps |-> 0, overlaps |-> MaxOwnerOverlap,
                  logging |-> FALSE, envs |-> Envs, actions |-> {"CREATE", "DESTROY"}],
                 "pr-1")

SpecOwners == InitOwners /\ [][Next]_vars

(***************************************************************************)
(* Properties                                                              *)
(***************************************************************************)
AllIdle == \A p \in Procs : proc[p].pc = "idle"
InFlight(e) == \E p \in Procs : proc[p].pc # "idle" /\ proc[p].env = e
OwnedPriorities(e, s) == {r \in priorities : r.virtualEnvId = e /\ r.serviceId = s}
RulesOf(e, s) == {r \in albRules : r.virtualEnvId = e /\ r.serviceId = s}
EntriesOf(e) == {r \in routingConfig : r.virtualEnvId = e}
\* The (environmentId, serviceId, priority) of every listener rule and every
\* RoutingEntry.
SlotHolders ==
    {<<r.virtualEnvId, r.serviceId, r.priority>> : r \in albRules} \cup
    {<<r.virtualEnvId, r.serviceId, r.priority>> : r \in routingConfig}

\* C1: no two environments have, in the same state, a listener rule or a
\* RoutingEntry carrying the same priority.
C1_NoSharedSlot ==
    \A a, b \in SlotHolders : a[3] = b[3] => a[1] = b[1]

\* Priorities left free by the rows that exist before the calls.
InitiallyFree ==
    MaxPriority - Cardinality({r \in priorities : r.virtualEnvId = OtherEnv})

\* C2: when the concurrent allocate calls are all over and at least as many
\* priorities were free as there are calls, every call has returned and the
\* priorities returned are pairwise distinct and in the range; a call that finds
\* the whole range allocated fails with the exhaustion error, and a row is
\* written only by the call that returns its priority.
C2_ConcurrentAllocate ==
    /\ []((/\ \A p \in Procs : proc[p].pc \in {"returned", "exhausted", "threw"}
           /\ InitiallyFree >= NProcs)
          => /\ \A p \in Procs : /\ proc[p].pc = "returned"
                                 /\ proc[p].priority \in PriorityRange
                                 /\ \E r \in priorities : r.priority = proc[p].priority
             /\ \A p, q \in Procs : p # q => proc[p].priority # proc[q].priority)
    /\ [][/\ \A p \in Procs :
                (/\ proc[p].pc = "a_query"
                 /\ UsedPriorities(priorities) = PriorityRange
                 /\ proc'[p] # proc[p])
                => /\ proc'[p].pc = "exhausted"
                   /\ proc'[p].error = ExhaustedMessage
          /\ priorities' # priorities =>
                \E p \in Procs :
                    /\ proc[p].pc = "a_put"
                    /\ proc'[p].pc = "returned"
                    /\ \E r \in priorities' \ priorities :
                          r.priority = proc'[p].priority]_vars

\* Two calls read the same snapshot, competed for its first free priority, and
\* both returned.
C2_Witness ==
    /\ InitiallyFree >= NProcs
    /\ \A p \in Procs : proc[p].pc = "returned"
    /\ \A p, q \in Procs : proc[p].used = proc[q].used
    /\ \E p, q \in Procs : proc[p].priority # proc[q].priority

\* C3: at most one PriorityAllocation exists per priority; an allocate call
\* commits a priority only when no row holds it, and no existing row is changed
\* or removed by an allocate call.
C3_NeverOverwritten ==
    /\ [](\A r1, r2 \in priorities : r1.priority = r2.priority => r1 = r2)
    /\ [][/\ \A r \in priorities : r \in priorities'
          /\ \A r \in priorities' \ priorities :
                r.priority \notin UsedPriorities(priorities)]_vars

\* A call lost its first candidate to a call of another owner, whose row is
\* still in place, and went on to the next candidate.
C3_Witness ==
    \E p \in Procs :
        /\ proc[p].pc = "returned"
        /\ proc[p].priority # NextCandidate(proc[p].used, MinPriority)
        /\ \E r \in priorities :
              /\ r.priority = NextCandidate(proc[p].used, MinPriority)
              /\ <<r.virtualEnvId, r.serviceId>> # <<proc[p].env, Service(proc[p])>>

\* C4: while two CREATE actions for the same environment, the only actions
\* delivered so far, are being handled, each service of the environment has at
\* most one PriorityAllocation and at most one listener rule.
C4_NoDoubleProvision ==
    \A e \in Envs :
        (/\ budget.events = MaxEvents - 2
         /\ \A p \in Procs : proc[p].action = "CREATE" /\ proc[p].env = e)
        => \A s \in ServiceIds : /\ Cardinality(OwnedPriorities(e, s)) <= 1
                                 /\ Cardinality(RulesOf(e, s)) <= 1

\* Positions of handleUpdate.
UpdatePcs == {"u_get", "u_upd", "u_redeploy", "u_query", "u_ttl", "u_active"}

\* C5: after CREATE and then CREATE again for the same environment, the second
\* is handled as UPDATE and returns, the record is ACTIVE, each service has at
\* most one PriorityAllocation, listener rule and RoutingEntry, and the second
\* creates or deletes no backend resource and no PriorityAllocation.
C5_IdempotentCreate ==
    /\ [](\A e \in Envs :
            (/\ AllIdle
             /\ Len(hist.trace) = 2
             /\ hist.trace[1] = [action |-> "CREATE", env |-> e, handledAs |-> "CREATE",
                                 outcome |-> "ok", error |-> ""]
             /\ hist.trace[2].action = "CREATE"
             /\ hist.trace[2].env = e)
            => /\ hist.trace[2].handledAs = "UPDATE"
               /\ hist.trace[2].outcome = "ok"
               /\ environments[e].exists
               /\ environments[e].status = "ACTIVE"
               /\ \A s \in ServiceIds :
                     /\ Cardinality(OwnedPriorities(e, s)) <= 1
                     /\ Cardinality(RulesOf(e, s)) <= 1
                     /\ Cardinality(RoutingRows(routingConfig, s, e)) <= 1)
    /\ [][\A p \in Procs :
            (/\ Len(hist.trace) = 1
             /\ hist.trace[1].action = "CREATE"
             /\ hist.trace[1].handledAs = "CREATE"
             /\ proc[p].action = "CREATE"
             /\ proc[p].env = hist.trace[1].env
             /\ proc[p].pc # "idle")
            => /\ proc[p].pc \in UpdatePcs \cup {"c_get"}
               /\ UNCHANGED <<priorities, albRules, targetGroups, ecsServices,
                              cloudMap>>]_vars

\* CREATE twice in succession, every service deployed by the first.
C5_Witness ==
    \E e \in Envs :
        /\ AllIdle
        /\ Len(hist.trace) = 2
        /\ hist.trace[1] = [action |-> "CREATE", env |-> e, handledAs |-> "CREATE",
                            outcome |-> "ok", error |-> ""]
        /\ hist.trace[2] = [action |-> "CREATE", env |-> e, handledAs |-> "UPDATE",
                            outcome |-> "ok", error |-> ""]
        /\ \A s \in ServiceIds : environments[e].services[s].status = "ACTIVE"

\* C6: a DESTROY for an environment that has a record, when no store call of its
\* own fails, returns without raising and leaves the status DESTROYED; a DESTROY
\* that finds no record returns and leaves no record.
C6_DestroyIdempotent ==
    \A e \in Envs :
        (~InFlight(e) /\ hist.last[e].action = "DESTROY")
        => /\ hist.last[e].outcome # "ok" => hist.last[e].error \in ErrorMessages
           /\ hist.last[e].handledAs = "DESTROY" =>
                 environments[e].exists /\ environments[e].status = "DESTROYED"

\* C7: every DESTROY the sweeper issues for an environment is handed to the
\* lifecycle controller, once per environment.
C7_SweepDelivers ==
    \A e \in Envs :
        hist.emitted[e] > 0 => hist.pending[e] + hist.delivered[e] = 1

\* C8: when a DESTROY has finished with status DESTROYED, no RoutingEntry and no
\* PriorityAllocation of the environment remains.
C8_TeardownComplete ==
    \A e \in Envs :
        (/\ ~InFlight(e)
         /\ hist.last[e].action = "DESTROY"
         /\ hist.last[e].handledAs = "DESTROY"
         /\ hist.last[e].outcome = "ok"
         /\ environments[e].status = "DESTROYED")
        => /\ EntriesOf(e) = {}
           /\ \A s \in ServiceIds : OwnedPriorities(e, s) = {}

\* C9: after a CREATE that recorded some service FAILED and some service ACTIVE,
\* the status is ACTIVE and lastError is not empty.
C9_PartialFailure ==
    \A e \in Envs :
        (/\ ~InFlight(e)
         /\ hist.last[e].action = "CREATE"
         /\ hist.last[e].handledAs = "CREATE"
         /\ hist.last[e].outcome = "ok"
         /\ \E s \in ServiceIds : environments[e].services[s].status = "FAILED"
         /\ \E s \in ServiceIds : environments[e].services[s].status = "ACTIVE")
        => /\ environments[e].status = "ACTIVE"
           /\ environments[e].lastError # ""

\* C10: after an action from whose handling an exception escaped, the status is
\* FAILED, lastError is populated, and the error raised is the one that escaped.
C10_FailedAndReraised ==
    \A e \in Envs :
        (~InFlight(e) /\ hist.last[e].outcome \in {"raised", "raised_in_catch"})
        => /\ hist.last[e].outcome = "raised"
           /\ environments[e].status = "FAILED"
           /\ environments[e].lastError # ""

\* The status of the record of `e`; "" when there is no record.
StatusOf(tbl, e) == IF tbl[e].exists THEN tbl[e].status ELSE ""

\* The changes of status the lifecycle allows.
LifecycleStep(from, to) ==
    \/ to = "FAILED" /\ from # ""
    \/ from = "" /\ to = "CREATING"
    \/ from = "CREATING" /\ to \in {"ACTIVE", "DESTROYING"}
    \/ from = "ACTIVE" /\ to \in {"UPDATING", "DESTROYING"}
    \/ from = "UPDATING" /\ to \in {"ACTIVE", "DESTROYING"}
    \/ from = "DESTROYING" /\ to = "DESTROYED"
    \/ from \in {"DESTROYED", "FAILED"} /\ to = "CREATING"

\* C11: every change of the status of an environment is a step of the lifecycle:
\* born CREATING, CREATING to ACTIVE, ACTIVE and UPDATING alternating, DESTROYING
\* entered from CREATING, ACTIVE or UPDATING and left to DESTROYED, any status to
\* FAILED, DESTROYED and FAILED left to CREATING only.
C11_Lifecycle ==
    [][\A e \in Envs :
          StatusOf(environments', e) # StatusOf(environments, e)
          => LifecycleStep(StatusOf(environments, e), StatusOf(environments', e))]_vars

\* Whether every service the record of `e` holds a compute handle for still has
\* its listener rule, compute service, RoutingEntry and PriorityAllocation.
ResourcesInPlace(e) ==
    \A s \in ServiceIds :
        environments[e].services[s].ecsServiceArn
        => /\ RulesOf(e, s) # {}
           /\ <<e, s>> \in ecsServices
           /\ RoutingRows(routingConfig, s, e) # {}
           /\ OwnedPriorities(e, s) # {}

\* C12: once an UPDATE and a DESTROY that overlapped on an ACTIVE environment
\* have both completed, every backend call having succeeded, the record is not
\* ACTIVE or UPDATING with the environment's resources torn down.
C12_RaceConverges ==
    \A e \in Envs :
        (/\ AllIdle
         /\ budget.backendFaults = MaxFaults
         /\ Len(hist.trace) = 2
         /\ budget.overlaps < MaxOverlap
         /\ {hist.trace[1].action, hist.trace[2].action} = {"UPDATE", "DESTROY"}
         /\ hist.trace[1].env = e /\ hist.trace[2].env = e
         /\ environments[e].status \in {"ACTIVE", "UPDATING"})
        => ResourcesInPlace(e)

\* C13: when a CREATE found no free priority for a service, the service is
\* recorded FAILED and the record's lastError names the exhaustion.
C13_ExhaustionVisible ==
    \A e \in Envs : \A s \in ServiceIds :
        (/\ AllIdle
         /\ Len(hist.trace) = 1
         /\ hist.trace[1].action = "CREATE" /\ hist.trace[1].env = e
         /\ UsedPriorities(priorities) = PriorityRange
         /\ OwnedPriorities(e, s) = {})
        => /\ environments[e].services[s].status = "FAILED"
           /\ environments[e].lastError = ExhaustedMessage

\* Whether backend resources provisioned for `e` are still there.
HasResources(e) ==
    \E s \in ServiceIds :
        \/ RulesOf(e, s) # {}
        \/ <<e, s>> \in ecsServices
        \/ <<e, s>> \in Names(targetGroups)

\* C14: a run of the sweeper that ends while no invocation is in flight, at a
\* time when the record of an environment with backend resources is still stored
\* and its expiresAt has passed by more than the grace period, leaves a DESTROY
\* for that environment with the lifecycle controller: so that, the sweeper being
\* invoked again and again, the environment is eventually torn down.
C14_CleanupLive ==
    [][\A e \in Envs :
          (/\ sweeper.pc # "idle" /\ sweeper'.pc = "idle"
           /\ AllIdle
           /\ HasResources(e)
           /\ environments[e].exists
           /\ environments[e].expiresAt # 0
           /\ environments[e].expiresAt + GraceSeconds < now)
          => hist'.pending[e] > 0]_vars

\* The environments a sweeper run at time `now` is to destroy.
Selected(e) ==
    /\ environments[e].exists
    /\ environments[e].expiresAt # 0
    /\ \/ environments[e].status = "ACTIVE" /\ environments[e].expiresAt < now
       \/ /\ environments[e].status \in {"CREATING", "UPDATING"}
          /\ environments[e].expiresAt < now - GraceSeconds

\* The sweeper's one run is over.
SweepDone == sweeper.pc = "idle" /\ budget.sweeps < MaxSweeps

\* The runs of the sweeper begun so far.
SweepRuns == MaxSweeps - budget.sweeps

\* C15: each run of the sweeper issues a DESTROY exactly once for each
\* environment that is ACTIVE with expiresAt < now, or CREATING or UPDATING with
\* expiresAt < now - grace period, and none for any other environment.
C15_SweepSelects ==
    \A e \in Envs :
        /\ hist.emitted[e] <= (IF Selected(e) THEN SweepRuns ELSE 0)
        /\ Selected(e) => hist.emitted[e] >= SweepRuns - 1
        /\ (sweeper.pc = "idle" /\ Selected(e)) => hist.emitted[e] = SweepRuns

\* A run has issued a DESTROY for an environment stuck in CREATING past the grace
\* period, and none for a record in another status that expired as long ago.
C15_Witness ==
    /\ SweepDone
    /\ \E e \in Envs :
          /\ environments[e].status = "CREATING"
          /\ hist.emitted[e] = 1
    /\ \E e \in Envs :
          /\ environments[e].status = "FAILED"
          /\ environments[e].expiresAt # 0
          /\ environments[e].expiresAt < now - GraceSeconds
          /\ hist.emitted[e] = 0

\* The step is a call of releasePriority for priority `k`.
Releases(k) ==
    /\ Len(hist'.trace) = Len(hist.trace) + 1
    /\ hist'.trace[Len(hist'.trace)].action = "RELEASE"
    /\ hist'.trace[Len(hist'.trace)].priority = k

\* C16: a release of priority k returns without raising; when the store took the
\* delete no row for k remains, no row of another priority is changed by it, and
\* a release of a priority without a row changes nothing; a following allocate
\* can return k again (the witness).
C16_ReleaseReuse ==
    [][\A k \in PriorityRange :
          Releases(k)
          => /\ hist'.trace[Len(hist'.trace)].outcome = "returned"
             /\ hist'.trace[Len(hist'.trace)].error = ""
             /\ proc' = proc
             /\ budget'.storeFaults = budget.storeFaults
                   => PriorityRows(priorities', k) = {}
             /\ \A j \in PriorityRange \ {k} :
                   PriorityRows(priorities', j) = PriorityRows(priorities, j)
             /\ PriorityRows(priorities, k) = {} => priorities' = priorities]_vars

\* A priority was allocated, released, and returned again by the next allocate.
C16_Witness ==
    /\ Len(hist.trace) = 3
    /\ hist.trace[1].action = "ALLOCATE" /\ hist.trace[1].outcome = "returned"
    /\ hist.trace[2].action = "RELEASE"
    /\ hist.trace[2].priority = hist.trace[1].priority
    /\ hist.trace[3].action = "ALLOCATE" /\ hist.trace[3].outcome = "returned"
    /\ hist.trace[3].priority = hist.trace[1].priority
    /\ PriorityRows(priorities, hist.trace[1].priority) # {}
    /\ budget.storeFaults = MaxFaults

\* C17: an UPDATE for an environment without a record, every backend call
\* succeeding, is handled as CREATE and returns; the record is born CREATING with
\* expiresAt = now + default TTL, and the UPDATE leaves what a CREATE leaves:
\* the record ACTIVE and every service deployed.
C17_UpdateAsCreate ==
    /\ [](\A e \in Envs :
            (/\ AllIdle
             /\ Len(hist.trace) = 1
             /\ hist.trace[1].action \in {"CREATE", "UPDATE"}
             /\ hist.trace[1].env = e
             /\ budget.backendFaults = MaxFaults)
            => /\ hist.trace[1].handledAs = "CREATE"
               /\ hist.trace[1].outcome = "ok"
               /\ Deployed(e))
    /\ [][\A e \in Envs :
            (/\ ~environments[e].exists
             /\ environments'[e].exists
             /\ \E p \in Procs : /\ proc[p].action = "UPDATE"
                                 /\ proc[p].env = e
                                 /\ proc[p].pc # "idle")
            => /\ environments'[e].status = "CREATING"
               /\ environments'[e].expiresAt = now + TtlSeconds]_vars

\* The first action was an UPDATE; it was handled as CREATE and the environment
\* is deployed.
C17_Witness ==
    \E e \in Envs :
        /\ AllIdle
        /\ hist.trace = <<[action |-> "UPDATE", env |-> e, handledAs |-> "CREATE",
                           outcome |-> "ok", error |-> ""]>>
        /\ Deployed(e)

\* C18: a sweeper run that begins after the time-to-live of an environment was
\* extended selects the environment only when the extended expiry has passed:
\* that is one hour, the shortest extension, after the expiry the environment was
\* created with, or later.
C18_ExtendTakesEffect ==
    [][\A e \in Envs :
          (/\ sweeper.pc = "idle" /\ sweeper'.pc # "idle"
           /\ environments[e].exists
           /\ environments[e].ttlTimestamp # 0
           /\ e \in sweeper'.expired)
          => now > TtlSeconds + 60 * 60]_vars

\* The teardown calls for one service, in the order they are to be issued: delete
\* the rule, scale the compute service to zero, delete it, delete the target
\* group, deregister the registry entry, read the RoutingEntry, release.
TeardownOrder ==
    <<"x_rule", "x_scale", "x_delete", "x_tg", "x_cm", "x_getrc", "x_release">>

TeardownPcs == {TeardownOrder[k] : k \in 1..Len(TeardownOrder)}

Rank(pc) == CHOOSE k \in 1..Len(TeardownOrder) : TeardownOrder[k] = pc

\* Whether the ServiceState holds the handle the call at `pc` is for; the compute
\* service is deleted only after it was scaled, a priority is released only when
\* a RoutingEntry was read.
Due(pc, state) ==
    CASE pc = "x_rule"  -> state.albRuleArn # 0
      [] pc = "x_scale" -> state.ecsServiceArn
      [] pc = "x_tg"    -> state.targetGroupArn # 0
      [] pc = "x_cm"    -> state.cloudMapServiceId # 0
      [] pc = "x_getrc" -> TRUE
      [] OTHER          -> FALSE

\* No call that is due lies between the positions `lo` and `hi` of the order.
NoneDueBetween(lo, hi, state) ==
    \A k \in (lo + 1)..(hi - 1) : ~Due(TeardownOrder[k], state)

\* C19: during DESTROY the teardown calls for a service are issued one after the
\* other in the fixed order, none that is due being passed over; a service is
\* begun only when the one before is finished; a resource is removed only by the
\* call for it; and the RoutingEntry rows are deleted and the status is set to
\* DESTROYED only after the last service.
C19_TeardownOrder ==
    [][\A p \in Procs :
          LET a == proc[p]
              b == proc'[p]
          IN  /\ (b.pc \in TeardownPcs /\ a # b) =>
                    LET state == b.existing[Service(b)]
                    IN  \/ /\ a.pc \in TeardownPcs /\ b.i = a.i
                           /\ Rank(b.pc) > Rank(a.pc)
                           /\ NoneDueBetween(Rank(a.pc), Rank(b.pc), state)
                        \/ /\ a.pc \in {"x_destroying", "x_getrc", "x_release"}
                           /\ b.i > a.i
                           /\ NoneDueBetween(0, Rank(b.pc), state)
              /\ (a.pc \in {"x_rcquery", "x_rcdel", "x_destroyed"})
                    => b.pc \notin TeardownPcs
              /\ (a.action = "DESTROY" /\ a # b) =>
                    /\ albRules' # albRules => a.pc = "x_rule"
                    /\ ecsServices' # ecsServices => a.pc = "x_delete"
                    /\ targetGroups' # targetGroups => a.pc = "x_tg"
                    /\ cloudMap' # cloudMap => a.pc = "x_cm"
                    /\ priorities' # priorities => a.pc = "x_release"
                    /\ routingConfig' # routingConfig => a.pc = "x_rcdel"
                    /\ StatusOf(environments', a.env) = "DESTROYED"
                       /\ StatusOf(environments, a.env) # "DESTROYED"
                          => a.pc = "x_destroyed"]_vars

\* A DESTROY is about to set DESTROYED after it tore down both services of a
\* deployed environment, every call having succeeded.
C19_Witness ==
    \E p \in Procs :
        /\ proc[p].pc = "x_destroyed"
        /\ proc[p].existing = DeployedServices
        /\ budget.backendFaults = MaxFaults
        /\ ~HasResources(proc[p].env)
        /\ EntriesOf(proc[p].env) = {}

\* C20: during DESTROY, whether or not the call that scales a compute service to
\* zero succeeds, the call that deletes the compute service is attempted next.
C20_TeardownProgress ==
    [][\A p \in Procs :
          (/\ proc[p].pc = "x_scale"
           /\ proc'[p] # proc[p]
           /\ <<proc[p].env, Service(proc[p])>> \in ecsServices)
          => proc'[p].pc = "x_delete"]_vars

\* Positions of deployService within the loop of handleCreate.
DeployPcs ==
    {"d_taskdef", "d_tg", "a_query", "a_put", "d_rule", "d_cloudmap", "d_ecs",
     "d_routing"}

\* The ServiceState is that of a deployed service: ACTIVE with the handles of its
\* task definition, target group, listener rule and compute service (the
\* registry handle is there when the registration succeeded), each of them in
\* place.
RecordedDeployed(e, s) ==
    LET st == environments[e].services[s]
    IN  /\ st.status = "ACTIVE"
        /\ st.taskDefinitionArn /\ st.targetGroupArn # 0 /\ st.ecsServiceArn
        /\ st.albRuleArn # 0
        /\ \E r \in RulesOf(e, s) : r.arn = st.albRuleArn
        /\ [name |-> <<e, s>>, arn |-> st.targetGroupArn] \in targetGroups
        /\ <<e, s>> \in ecsServices
        /\ st.cloudMapServiceId # 0
              => [name |-> <<e, s>>, id |-> st.cloudMapServiceId] \in cloudMap

\* The index of the next service after `i` that has a compute handle in
\* `services`; 0 when there is none.
NextWithHandle(services, i) ==
    LET later == {j \in (i + 1)..Len(PREVIEWABLE_SERVICES) :
                      services[PREVIEWABLE_SERVICES[j]].ecsServiceArn}
    IN  IF later = {} THEN 0 ELSE CHOOSE j \in later : \A k \in later : j <= k

\* C21: during CREATE the services are attempted one after the other, each once,
\* whether or not the deployment of another fails; after the CREATE a service
\* whose deployment succeeded (deployService stored its RoutingEntry and returned)
\* is recorded ACTIVE with its handles and a service whose deployment failed is
\* recorded FAILED; during UPDATE every service with a compute handle is
\* redeployed whether or not the redeploy of another fails, and the UPDATE returns
\* the environment to ACTIVE.
C21_SiblingsIndependent ==
    /\ [](\A e \in Envs :
            (/\ AllIdle
             /\ Len(hist.trace) >= 1
             /\ hist.trace[1].action = "CREATE" /\ hist.trace[1].env = e)
            => /\ hist.trace[1].handledAs = "CREATE"
               /\ hist.trace[1].outcome = "ok"
               /\ Len(hist.trace) = 1 =>
                     /\ environments[e].status = "ACTIVE"
                     /\ \A s \in ServiceIds :
                           IF RoutingRows(routingConfig, s, e) # {}
                           THEN RecordedDeployed(e, s)
                           ELSE environments[e].services[s] =
                                    [NoServiceState EXCEPT !.status = "FAILED"]
               /\ (/\ Len(hist.trace) = 2
                   /\ hist.trace[2].action = "UPDATE" /\ hist.trace[2].env = e)
                  => /\ hist.trace[2].handledAs = "UPDATE"
                     /\ hist.trace[2].outcome = "ok"
                     /\ environments[e].status = "ACTIVE")
    /\ [][\A p \in Procs :
            LET a == proc[p]
                b == proc'[p]
            IN  /\ (a.pc \in DeployPcs /\ a # b) =>
                      /\ b.pc \in DeployPcs \cup {"c_svcupd", "c_failupd"}
                      /\ b.i = a.i
                      /\ b.pc = "d_taskdef" => a.pc = "d_taskdef"
                /\ (a.pc \in {"c_svcupd", "c_failupd"} /\ a # b) =>
                      \/ a.pc = "c_svcupd" /\ b.pc = "c_failupd" /\ b.i = a.i
                      \/ IF a.i < Len(PREVIEWABLE_SERVICES)
                         THEN b.pc = "d_taskdef" /\ b.i = a.i + 1
                         ELSE b.pc = "c_active"
                /\ (a.pc = "c_put" /\ a # b) => b.pc = "d_taskdef" /\ b.i = 1
                /\ (a.pc = "u_redeploy" /\ a # b) =>
                      LET j == NextWithHandle(a.existing, a.i)
                      IN  IF j = 0 THEN b.pc = "u_query"
                          ELSE b.pc = "u_redeploy" /\ b.i = j]_vars

\* A RoutingEntry without its expiry: the key with the priority and the rule and
\* target references.
EntryIdentity(r) ==
    [serviceId |-> r.serviceId, virtualEnvId |-> r.virtualEnvId,
     priority |-> r.priority, albRuleArn |-> r.albRuleArn,
     targetGroupArn |-> r.targetGroupArn]

\* C22: no step of handleUpdate on an existing record changes the
\* PriorityAllocations, the backend resources, the identity (key, priority, rule
\* and target references) of any RoutingEntry or the services map of the
\* environment, and the only services redeployed are those recorded with a
\* compute handle.
C22_UpdateCreatesNothing ==
    [][\A p \in Procs :
          LET a == proc[p]
              b == proc'[p]
          IN  (a.pc \in UpdatePcs \ {"u_get"} /\ a # b) =>
                 /\ UNCHANGED <<priorities, albRules, nextArn, nextId, targetGroups,
                                ecsServices, cloudMap>>
                 /\ {EntryIdentity(r) : r \in routingConfig'}
                       = {EntryIdentity(r) : r \in routingConfig}
                 /\ environments'[a.env].services = environments[a.env].services
                 /\ environments'[a.env].hasServices = environments[a.env].hasServices
                 /\ b.pc \notin DeployPcs \cup {"c_get", "c_put"}
                 /\ b.pc = "u_redeploy" =>
                       environments[a.env].services[Service(b)].ecsServiceArn]_vars

\* An UPDATE has completed for an environment whose first service failed during
\* CREATE: that service is still FAILED without a compute service, the other is
\* deployed and has its RoutingEntry.
C22_Witness ==
    \E e \in Envs :
        /\ AllIdle
        /\ Len(hist.trace) = 2
        /\ hist.trace[2] = [action |-> "UPDATE", env |-> e, handledAs |-> "UPDATE",
                            outcome |-> "ok", error |-> ""]
        /\ environments[e].services[PREVIEWABLE_SERVICES[1]] =
              [NoServiceState EXCEPT !.status = "FAILED"]
        /\ <<e, PREVIEWABLE_SERVICES[1]>> \notin ecsServices
        /\ RecordedDeployed(e, PREVIEWABLE_SERVICES[2])
        /\ RoutingRows(routingConfig, PREVIEWABLE_SERVICES[2], e) # {}

\* C23: when the UPDATE actions delivered for a deployed environment, in any
\* interleaving and every backend call succeeding, have all completed, the expiry
\* of every RoutingEntry of the environment equals the environment's expiresAt.
C23_ExpiryMirror ==
    \A e \in Envs :
        (/\ AllIdle
         /\ budget.backendFaults = MaxFaults
         /\ Len(hist.trace) >= 1
         /\ \A k \in 1..Len(hist.trace) :
               hist.trace[k] = [action |-> "UPDATE", env |-> e, handledAs |-> "UPDATE",
                                outcome |-> "ok", error |-> ""])
        => \A r \in EntriesOf(e) : r.ttl = environments[e].expiresAt

\* The ServiceState of `s` in the record of `e` is that of a provisioned service:
\* ACTIVE with its handles.
RecordedProvisioned(e, s) ==
    LET st == environments[e].services[s]
    IN  /\ environments[e].exists
        /\ st.status = "ACTIVE"
        /\ st.ecsServiceArn /\ st.targetGroupArn # 0 /\ st.albRuleArn # 0

\* C24: once the actions for an environment have completed, every backend call
\* having succeeded, a RoutingEntry (s, e) exists if and only if the services map
\* of e records s as provisioned.
C24_EntryIffProvisioned ==
    \A e \in Envs : \A s \in ServiceIds :
        (~InFlight(e) /\ budget.backendFaults = MaxFaults)
        => (RoutingRows(routingConfig, s, e) # {} <=> RecordedProvisioned(e, s))

\* C25: every Environment record whose status is not CREATING has an expiresAt.
C25_ExpiresAtPresent ==
    \A e \in Envs :
        (environments[e].exists /\ environments[e].status # "CREATING")
        => environments[e].expiresAt # 0

\* The smallest priority of the range that is not in `used`; 0 when there is none.
SmallestFree(used) ==
    LET free == PriorityRange \ used
    IN  IF free = {} THEN 0 ELSE CHOOSE c \in free : \A d \in free : c <= d

\* C26: within one call of allocate the candidates are attempted in ascending
\* order, each at most once and none that the initial scan saw in use; the call
\* returns the first candidate whose conditional create commits, a priority of
\* the range; and when the table did not change during the call that is the
\* smallest priority without a row.
C26_AscendingFirstCommit ==
    /\ [](\A p \in Procs :
            proc[p].pc = "returned" => proc[p].priority \in PriorityRange)
    /\ [][\A p \in Procs :
            LET a == proc[p]
                b == proc'[p]
            IN  /\ (a.pc = "a_query" /\ a # b) =>
                      /\ b.used = UsedPriorities(priorities)
                      /\ IF SmallestFree(b.used) = 0 THEN b.pc = "exhausted"
                         ELSE b.pc = "a_put" /\ b.cand = SmallestFree(b.used)
                /\ (a.pc = "a_put" /\ a # b) =>
                      /\ a.cand \in PriorityRange \ a.used
                      /\ b.used = a.used
                      /\ IF PriorityRows(priorities, a.cand) = {}
                         THEN /\ b.pc = "returned" /\ b.priority = a.cand
                              /\ \E r \in priorities' \ priorities :
                                    /\ r.priority = a.cand
                                    /\ r.virtualEnvId = a.env
                                    /\ r.serviceId = Service(a)
                         ELSE /\ priorities' = priorities
                              /\ \/ /\ b.pc = "a_put"
                                    /\ b.cand > a.cand
                                    /\ b.cand \in PriorityRange \ a.used
                                    /\ \A c \in (a.cand + 1)..(b.cand - 1) : c \in a.used
                                 \/ /\ b.pc = "exhausted"
                                    /\ \A c \in (a.cand + 1)..MaxPriority : c \in a.used
                      /\ (b.pc = "returned" /\ a.used = UsedPriorities(priorities))
                            => b.priority = SmallestFree(UsedPriorities(priorities))]_vars

\* A call was refused its first candidate, taken by another call after the scan,
\* and returned the next priority its scan had not seen in use.
C26_Witness ==
    \E p \in Procs :
        /\ proc[p].pc = "returned"
        /\ proc[p].used # {}
        /\ SmallestFree(proc[p].used) # 0
        /\ proc[p].priority > SmallestFree(proc[p].used)
        /\ \A c \in SmallestFree(proc[p].used)..proc[p].priority : c \notin proc[p].used

\* C28: a release performed by the teardown of an environment removes no
\* PriorityAllocation whose recorded owner is another environment.
C28_ReleaseOwnRowsOnly ==
    [][\A p \in Procs :
          (proc[p].pc = "x_release" /\ proc'[p] # proc[p])
          => \A r \in priorities \ priorities' : r.virtualEnvId = proc[p].env]_vars

\* C29: allocatePriority throws its exhaustion error only when no priority of the
\* range stayed free for the whole call, i.e. none was free both in the snapshot
\* the call read and in the table when it gave up.
C29_ExhaustionIsReal ==
    [][\A p \in Procs :
          (proc[p].pc # "exhausted" /\ proc'[p].pc = "exhausted")
          => ~ \E k \in MinPriority..MaxPriority :
                  /\ k \notin proc'[p].used
                  /\ k \notin UsedPriorities(priorities')]_vars

\* C30: once an action for an environment is over and its record is ACTIVE, no
\* PriorityAllocation the environment owns expires before the environment's
\* expiresAt.
C30_AllocationOutlivesOwner ==
    \A r \in priorities :
        LET e == r.virtualEnvId
        IN  (/\ e \in Envs
             /\ environments[e].exists
             /\ environments[e].status = "ACTIVE"
             /\ \A p \in Procs : proc[p].pc = "idle" \/ proc[p].env # e)
            => r.ttl >= environments[e].expiresAt

====
